---- MODULE Spec2Model ----
(***************************************************************************)
(* Gridless imaging core of tart-telescope/web_app (rust/src).             *)
(*                                                                         *)
(* Reals (f32) are modelled in fixed point: the integer x stands for the   *)
(* real x / Scale.  The model is the fast-math build (utils.rs:108); the   *)
(* wasm32 / native target is the state variable target_wasm.               *)
(***************************************************************************)
EXTENDS Integers, Sequences, FiniteSets, TLC

VARIABLES
    tess,         \* nside -> the Hemisphere that Hemisphere::new(nside) computes
    target_wasm,  \* build target: TRUE for wasm32, FALSE for native
    heap,         \* owner cell -> << >> or << the Hemisphere it owns >>
    cache,        \* HEMISPHERE_CACHE of the thread: << >> or << [nside, hemi] >>
    held,         \* caller -> << >> or << reference of the Hemisphere it holds >>
    requested,    \* history: nside of the latest request since the last clear
    last,         \* history: the latest cache / reconstruct operation
    outcome,      \* history: the latest call of an entry point and its result
    pc,           \* thread -> its position in get_or_create_hemisphere
    req,          \* thread -> the nside it has asked for
    local,        \* thread -> << >> or << the Hemisphere in its local variable >>
    ret,          \* thread -> << >> or << the Hemisphere its latest call returned >>
    tcache,       \* slot -> HEMISPHERE_CACHE of the thread(s) that see the slot
    obs,          \* the observation and pixel arrays handed to the array kernels
    kernel,       \* history: the latest array kernel run on obs and its results
    brightness,   \* the brightness array handed to the summary statistics
    stats,        \* history: the latest statistic computed of brightness
    dataset,      \* the parsed JSON dataset handed to the pipeline
    run           \* history: the latest run of the pipeline on dataset

cacheVars == << heap, cache, held, requested, last >>
entryVars == << outcome >>
concVars == << pc, req, local, ret, tcache >>
kernelVars == << obs, kernel >>
statVars == << brightness, stats >>
pipeVars == << dataset, run >>
arrayVars == << kernelVars, statVars, pipeVars >>
vars == << tess, target_wasm, cacheVars, entryVars, concVars, arrayVars >>

\* ------------------------------------------------------------------ bounds
\* Largest resolution parameter requested in the model (0 .. MaxNside).
MaxNside == 2
\* Longest visibility / coordinate array handed to reconstruct.
MaxBaselines == 1

\* ------------------------------------------------------- fixed-point reals
Scale == 10^4

\* a / b rounded to the nearest integer (b > 0).
RDiv(a, b) == (a + b \div 2) \div b

FxMul(a, b) == RDiv(a * b, Scale)

FxDiv(a, b) == IF b > 0 THEN RDiv(a * Scale, b) ELSE 0 - RDiv(a * Scale, 0 - b)

Abs(x) == IF x < 0 THEN 0 - x ELSE x

RECURSIVE ISqrtIn(_, _, _)
ISqrtIn(x, lo, hi) ==
    IF lo >= hi THEN lo
    ELSE LET mid == (lo + hi + 1) \div 2
         IN  IF mid * mid <= x THEN ISqrtIn(x, mid, hi) ELSE ISqrtIn(x, lo, mid - 1)

\* floor(sqrt(x)) for 0 <= x < 2^31.
ISqrt(x) == ISqrtIn(x, 0, 46340)

\* f32::sqrt on a fixed-point value: sqrt(x / Scale) * Scale = sqrt(x * 100) * 10.
FxSqrt(x) == ISqrt(x * 100) * 10

\* utils.rs:17-20
PI == 31416
TWO_PI == 2 * PI
PI_HALF == PI \div 2
PI_OVER_2 == PI_HALF

\* Polynomial coefficients are kept at the finer scale PolyScale.
PolyScale == 10^6

\* x2 * t for x2 at Scale and t at PolyScale, at PolyScale.
PolyMul(x2, t) == RDiv(x2 * RDiv(t, 10), 1000)

\* utils.rs:110-137 (fast-math): returns <<sin, cos>>.
FastSinCos(x) ==
    LET inv_2pi       == FxDiv(Scale, TWO_PI)
        turns         == RDiv(FxMul(x, inv_2pi), Scale)
        angle         == x - turns * TWO_PI
        abs_angle     == Abs(angle)
        sign_sin      == IF angle >= 0 THEN 1 ELSE -1
        in_first      == abs_angle <= PI_HALF
        reduced_angle == IF in_first THEN abs_angle ELSE PI - abs_angle
        cos_sign      == IF in_first THEN 1 ELSE -1
        x2            == FxMul(reduced_angle, reduced_angle)
        sin_poly      == PolyScale - PolyMul(x2, RDiv(PolyScale, 6)
                             - PolyMul(x2, RDiv(PolyScale, 120) - RDiv(x2 * 100, 5040)))
        sin_approx    == FxMul(reduced_angle, RDiv(sin_poly, 100))
        cos_poly      == PolyScale - PolyMul(x2, RDiv(PolyScale, 2)
                             - PolyMul(x2, RDiv(PolyScale, 24) - RDiv(x2 * 100, 720)))
        cos_approx    == RDiv(cos_poly, 100)
    IN  << sin_approx * sign_sin, cos_approx * cos_sign >>

\* A magnitude that keeps the sign of the real part.
FastMagnitudeSigned(z) ==
    LET norm_sq == FxMul(z[1], z[1]) + FxMul(z[2], z[2])
    IN  IF norm_sq = 0 THEN 0 ELSE (IF z[1] < 0 THEN -1 ELSE 1) * FxSqrt(norm_sq)

\* utils.rs:164-172: |z| for z = <<re, im>>.
FastMagnitude(z) ==
    LET norm_sq == FxMul(z[1], z[1]) + FxMul(z[2], z[2])
    IN  IF norm_sq = 0 THEN 0 ELSE FxSqrt(norm_sq)

\* ------------------------------------------- equal-area ring tessellation
\* cdshealpix::ring::n_hash as called at sphere.rs:178.
NHash(nside) == 12 * nside * nside

RECURSIVE CapRing(_, _)
\* Ring (1-based) of the polar cap holding the cap-relative pixel p.
CapRing(p, i) == IF p < 2 * i * (i + 1) THEN i ELSE CapRing(p, i + 1)

\* Ring position of a full-sphere pixel: ring index i counted from the north
\* pole (1 .. 4*nside-1), 0-based position j in the ring, ring length len.
RingOf(nside, pix) ==
    LET ncap == 2 * nside * (nside - 1)
        npix == NHash(nside)
    IN  IF pix < ncap
        THEN LET i == CapRing(pix, 1)
             IN  [i |-> i, j |-> pix - 2 * i * (i - 1), len |-> 4 * i]
        ELSE IF pix < npix - ncap
        THEN LET ip == pix - ncap
             IN  [i |-> ip \div (4 * nside) + nside, j |-> ip % (4 * nside),
                  len |-> 4 * nside]
        ELSE LET ps == npix - 1 - pix
                 i  == CapRing(ps, 1)
             IN  [i |-> 4 * nside - i, j |-> 4 * i - 1 - (ps - 2 * i * (i - 1)),
                  len |-> 4 * i]

\* z = sin(latitude) of the ring's centre.
RingZ(nside, i) ==
    IF i < nside THEN Scale - RDiv(i * i * Scale, 3 * nside * nside)
    ELSE IF i <= 3 * nside THEN RDiv(2 * (2 * nside - i) * Scale, 3 * nside)
    ELSE LET k == 4 * nside - i
         IN  0 - (Scale - RDiv(k * k * Scale, 3 * nside * nside))

\* sin on [0, pi/2] by its series to x^9 (the reference for asin below).
SinSeries(x) ==
    LET x2 == FxMul(x, x)
        p  == PolyScale - PolyMul(x2, RDiv(PolyScale, 6) - PolyMul(x2, RDiv(PolyScale, 120)
                  - PolyMul(x2, RDiv(PolyScale, 5040) - RDiv(x2 * 100, 362880))))
    IN  FxMul(x, RDiv(p, 100))

RECURSIVE AsinIn(_, _, _)
AsinIn(z, lo, hi) ==
    IF lo >= hi THEN lo
    ELSE LET mid == (lo + hi) \div 2
         IN  IF SinSeries(mid) < z THEN AsinIn(z, mid + 1, hi) ELSE AsinIn(z, lo, mid)

\* asin(z) in [-pi/2, pi/2].
Asin(z) == IF z >= Scale THEN PI_HALF
           ELSE IF z >= 0 THEN AsinIn(z, 0, PI_HALF)
           ELSE 0 - AsinIn(0 - z, 0, PI_HALF)

\* cdshealpix::ring::center as called at sphere.rs:183 and 200:
\* <<lon, lat>> of the centre of pixel pix.
Center(nside, pix) ==
    LET r     == RingOf(nside, pix)
        inCap == r.i < nside \/ r.i > 3 * nside
        \* twice the offset of the first pixel centre, in pixel widths
        off2  == IF inCap \/ (r.i + nside) % 2 = 0 THEN 1 ELSE 0
        lon   == RDiv((2 * r.j + off2) * PI, r.len)
    IN  << lon, Asin(RingZ(nside, r.i)) >>
\* ---------------------------------------------------------------- Hemisphere
\* Direction cosines that leave out the factor cos(el) of l and m.
ToLmnPlanar(el, az) ==
    LET az_sc == FastSinCos(az)
        el_sc == FastSinCos(el)
    IN  << az_sc[1], az_sc[2], el_sc[1] >>

\* sphere.rs:98-105: direction cosines <<l, m, n>> of elevation el, azimuth az.
ToLmn(el, az) ==
    LET az_sc == FastSinCos(az)
        el_sc == FastSinCos(el)
    IN  << FxMul(az_sc[1], el_sc[2]), FxMul(az_sc[2], el_sc[2]), el_sc[1] >>

\* A test that also keeps the pixels whose centre lies on the horizon.
IsVisibleInclusive(nside, pix) ==
    LET theta == PI_OVER_2 - Center(nside, pix)[2]
    IN  theta <= PI_OVER_2

\* sphere.rs:184-185 / 201-203: the pixel is kept iff its colatitude
\* theta = PI_OVER_2 - lat is strictly below PI_OVER_2.
IsVisible(nside, pix) ==
    LET theta == PI_OVER_2 - Center(nside, pix)[2]
    IN  theta < PI_OVER_2

\* A scan of the full sphere from its last pixel to its first.
VisibleIndicesDescending(nside) ==
    SelectSeq([k \in 1..NHash(nside) |-> NHash(nside) - k],
              LAMBDA pix : IsVisible(nside, pix))

\* sphere.rs:199-223: the kept full-sphere pixel indices, in increasing order.
VisibleIndices(nside) ==
    SelectSeq([k \in 1..NHash(nside) |-> k - 1], LAMBDA pix : IsVisible(nside, pix))

\* sphere.rs:174-235 (and wasm/sphere_simd.rs:231-289): Hemisphere for nside.
ComputeNewScalar(nside) ==
    LET vis   == VisibleIndices(nside)
        count == Len(vis)
        ElAzOf(pix) == LET c     == Center(nside, pix)
                           theta == PI_OVER_2 - c[2]
                       IN  [el |-> PI_OVER_2 - theta, az |-> 0 - c[1]]
        elaz  == [k \in 1..count |-> ElAzOf(vis[k])]
        lmn   == [k \in 1..count |-> ToLmn(elaz[k].el, elaz[k].az)]
    IN  [nside           |-> nside,
         npix            |-> count,
         visible_pix     |-> [k \in 1..count |-> 0],
         visible_indices |-> vis,
         elaz            |-> elaz,
         l               |-> [k \in 1..count |-> lmn[k][1]],
         m               |-> [k \in 1..count |-> lmn[k][2]],
         n               |-> [k \in 1..count |-> lmn[k][3]]]

\* F applied to the value of v: v is evaluated once, whatever F does with it.
With(v, F(_)) == CHOOSE y \in {F(x) : x \in {v}} : TRUE

\* wasm/sphere_simd.rs:49-214 (wasm32 with the simd feature): the visible
\* coordinates are collected first, then processed four at a time, then the
\* remaining fewer than four one at a time.
ComputeHemisphereSimd(nside) ==
    LET Lane(coord) == LET el == PI_OVER_2 - coord[3]
                           az == 0 - coord[1]
                       IN  << [el |-> el, az |-> az], ToLmn(el, az) >>
        Coords(vis) == [k \in 1..Len(vis) |->
                           LET c == Center(nside, vis[k])
                           IN  << c[1], c[2], PI_OVER_2 - c[2] >>]
        Process(visible_coords) ==
            LET count     == Len(visible_coords)
                chunks    == count \div 4
                remainder == count % 4
                chunked   == [k \in 1..(4 * chunks) |->
                                 LET base_idx == ((k - 1) \div 4) * 4
                                     i        == (k - 1) % 4
                                 IN  Lane(visible_coords[base_idx + i + 1])]
                rest      == [k \in 1..remainder |-> Lane(visible_coords[chunks * 4 + k])]
            IN  chunked \o rest
    IN  With(VisibleIndices(nside), LAMBDA vis :
          With(Coords(vis), LAMBDA visible_coords :
            With(Process(visible_coords), LAMBDA out :
              [nside           |-> nside,
               npix            |-> Len(vis),
               visible_pix     |-> [k \in 1..Len(vis) |-> 0],
               visible_indices |-> vis,
               elaz            |-> [k \in 1..Len(out) |-> out[k][1]],
               l               |-> [k \in 1..Len(out) |-> out[k][2][1]],
               m               |-> [k \in 1..Len(out) |-> out[k][2][2]],
               n               |-> [k \in 1..Len(out) |-> out[k][2][3]]])))

\* sphere.rs:122-131: Hemisphere::new; the tessellation is a pure function of
\* nside, evaluated once per nside (Init) and looked up here.
HemisphereNew(nside) == tess[nside]

\* ------------------------------------------------------------ reconstruction
ErrLength == "Visibility and coordinate arrays must have same length"
ErrEmptySky == "Sky hemisphere has no visible pixels"

\* gridless_core.rs:39-89: one array of <<cos, sin>> per baseline, one entry
\* per visible pixel.
ComputeFourierHarmonics(sky, u_coords, v_coords, w_coords) ==
    LET num_baselines == Len(u_coords)
        num_pixels    == Len(sky.visible_pix)
        phase_mult    == 0 - TWO_PI
        Harmonic(b, p) ==
            LET phase == FxMul(phase_mult,
                               FxMul(u_coords[b], sky.l[p]) + FxMul(v_coords[b], sky.m[p])
                                 + FxMul(w_coords[b], sky.n[p] - Scale))
                sc    == FastSinCos(phase)
            IN  << sc[2], sc[1] >>
    IN  [b \in 1..num_baselines |-> [p \in 1..num_pixels |-> Harmonic(b, p)]]

RECURSIVE Accumulate(_, _, _, _)
\* gridless_core.rs:146-163: complex_pixels += visibility * harmonic, baseline
\* by baseline from index b on.
Accumulate(visibilities, harmonics, b, complex_pixels) ==
    IF b > Len(visibilities) THEN complex_pixels
    ELSE LET vis == visibilities[b]
             h   == harmonics[b]
             next == [p \in 1..Len(complex_pixels) |->
                        LET acc == complex_pixels[p]
                            hp  == h[p]
                        IN  << acc[1] + FxMul(vis[1], hp[1]) - FxMul(vis[2], hp[2]),
                               acc[2] + FxMul(vis[1], hp[2]) + FxMul(vis[2], hp[1]) >>]
         IN  Accumulate(visibilities, harmonics, b + 1, next)

\* A reduction that divides by the pixel count instead of its square root.
ReduceToRealByCount(complex_pixels, use_real_only) ==
    LET num_sky_pixels == Len(complex_pixels)
        normalization  == FxDiv(Scale, num_sky_pixels * Scale)
    IN  [p \in 1..num_sky_pixels |->
            LET z == complex_pixels[p]
            IN  IF use_real_only THEN FxMul(z[1], normalization)
                ELSE FxMul(FastMagnitude(z), normalization)]

\* gridless_core.rs:165-175: normalise and reduce to real values.
ReduceToReal(complex_pixels, use_real_only) ==
    LET num_sky_pixels == Len(complex_pixels)
        normalization  == FxDiv(Scale, FxSqrt(num_sky_pixels * Scale))
    IN  [p \in 1..num_sky_pixels |->
            LET z == complex_pixels[p]
            IN  IF use_real_only THEN FxMul(z[1], normalization)
                ELSE FxMul(FastMagnitude(z), normalization)]

\* The pipeline of reconstruct after its two checks.
ReconstructCompute(visibilities, u_coords, v_coords, w_coords, sky, use_real_only) ==
    LET num_sky_pixels == Len(sky.visible_pix)
        harmonics      == ComputeFourierHarmonics(sky, u_coords, v_coords, w_coords)
        zeros          == [p \in 1..num_sky_pixels |-> << 0, 0 >>]
        complex_pixels == Accumulate(visibilities, harmonics, 1, zeros)
        values         == ReduceToReal(complex_pixels, use_real_only)
    IN  [result    |-> "Ok",
         sky       |-> [sky EXCEPT !.visible_pix = values],
         harmonics |-> Len(harmonics),
         fresh     |-> values]

LengthsDiffer(visibilities, u_coords, v_coords, w_coords) ==
    LET num_baselines == Len(visibilities)
    IN  \/ num_baselines # Len(u_coords)
        \/ num_baselines # Len(v_coords)
        \/ num_baselines # Len(w_coords)

\* A reconstruct whose length check forgets w_coords: a w array of another
\* length is read as far as it goes and as 0 beyond.
ReconstructIgnoresW(visibilities, u_coords, v_coords, w_coords, sky, use_real_only) ==
    LET num_baselines == Len(visibilities)
        w_read == [b \in 1..num_baselines |-> IF b <= Len(w_coords) THEN w_coords[b] ELSE 0]
    IN  IF num_baselines # Len(u_coords) \/ num_baselines # Len(v_coords)
        THEN [result |-> ErrLength, sky |-> sky, harmonics |-> 0, fresh |-> << >>]
        ELSE IF Len(sky.visible_pix) = 0
        THEN [result |-> ErrEmptySky, sky |-> sky, harmonics |-> 0, fresh |-> << >>]
        ELSE ReconstructCompute(visibilities, u_coords, v_coords, w_read, sky, use_real_only)

\* A reconstruct that accumulates in place: it clears the brightness array
\* before it validates its arguments.
ReconstructClearsFirst(visibilities, u_coords, v_coords, w_coords, sky, use_real_only) ==
    LET cleared == [sky EXCEPT !.visible_pix = [p \in 1..Len(sky.visible_pix) |-> 0]]
    IN  IF LengthsDiffer(visibilities, u_coords, v_coords, w_coords)
        THEN [result |-> ErrLength, sky |-> cleared, harmonics |-> 0, fresh |-> << >>]
        ELSE IF Len(sky.visible_pix) = 0
        THEN [result |-> ErrEmptySky, sky |-> cleared, harmonics |-> 0, fresh |-> << >>]
        ELSE ReconstructCompute(visibilities, u_coords, v_coords, w_coords, cleared, use_real_only)

\* A reconstruct that computes the harmonics before it tests for an empty sky.
ReconstructHarmonicsFirst(visibilities, u_coords, v_coords, w_coords, sky, use_real_only) ==
    IF LengthsDiffer(visibilities, u_coords, v_coords, w_coords)
    THEN [result |-> ErrLength, sky |-> sky, harmonics |-> 0, fresh |-> << >>]
    ELSE IF Len(sky.visible_pix) = 0
    THEN [result |-> ErrEmptySky, sky |-> sky,
          harmonics |-> Len(ComputeFourierHarmonics(sky, u_coords, v_coords, w_coords)),
          fresh |-> << >>]
    ELSE ReconstructCompute(visibilities, u_coords, v_coords, w_coords, sky, use_real_only)

\* A reconstruct that subtracts 1 from sky.n in place instead of in a copy.
ReconstructShiftsN(visibilities, u_coords, v_coords, w_coords, sky, use_real_only) ==
    IF LengthsDiffer(visibilities, u_coords, v_coords, w_coords)
    THEN [result |-> ErrLength, sky |-> sky, harmonics |-> 0, fresh |-> << >>]
    ELSE IF Len(sky.visible_pix) = 0
    THEN [result |-> ErrEmptySky, sky |-> sky, harmonics |-> 0, fresh |-> << >>]
    ELSE LET r == ReconstructCompute(visibilities, u_coords, v_coords, w_coords, sky,
                                     use_real_only)
         IN  [r EXCEPT !.sky.n = [p \in 1..Len(sky.n) |-> sky.n[p] - Scale]]

\* A reconstruct that tests for an empty sky before it compares the lengths.
ReconstructEmptyFirst(visibilities, u_coords, v_coords, w_coords, sky, use_real_only) ==
    IF Len(sky.visible_pix) = 0
    THEN [result |-> ErrEmptySky, sky |-> sky, harmonics |-> 0, fresh |-> << >>]
    ELSE IF LengthsDiffer(visibilities, u_coords, v_coords, w_coords)
    THEN [result |-> ErrLength, sky |-> sky, harmonics |-> 0, fresh |-> << >>]
    ELSE ReconstructCompute(visibilities, u_coords, v_coords, w_coords, sky, use_real_only)

\* A reconstruct that adds the new values to the brightness array.
ReconstructAccumulates(visibilities, u_coords, v_coords, w_coords, sky, use_real_only) ==
    IF LengthsDiffer(visibilities, u_coords, v_coords, w_coords)
    THEN [result |-> ErrLength, sky |-> sky, harmonics |-> 0, fresh |-> << >>]
    ELSE IF Len(sky.visible_pix) = 0
    THEN [result |-> ErrEmptySky, sky |-> sky, harmonics |-> 0, fresh |-> << >>]
    ELSE LET r == ReconstructCompute(visibilities, u_coords, v_coords, w_coords, sky,
                                     use_real_only)
         IN  [r EXCEPT !.sky.visible_pix =
                 [p \in 1..Len(r.fresh) |-> sky.visible_pix[p] + r.fresh[p]]]

\* gridless_core.rs:117-178 (wasm/gridless_simd.rs:49-145 has the same checks
\* and the same final assignment): the result, the Hemisphere after the call,
\* the number of harmonic arrays computed and the values computed for writing.
ReconstructSkyImage(visibilities, u_coords, v_coords, w_coords, sky, use_real_only) ==
    IF LengthsDiffer(visibilities, u_coords, v_coords, w_coords)
    THEN [result |-> ErrLength, sky |-> sky, harmonics |-> 0, fresh |-> << >>]
    ELSE IF Len(sky.visible_pix) = 0
    THEN [result |-> ErrEmptySky, sky |-> sky, harmonics |-> 0, fresh |-> << >>]
    ELSE ReconstructCompute(visibilities, u_coords, v_coords, w_coords, sky, use_real_only)
\* -------------------------------------------------- ownership of Hemispheres
\* Every Hemisphere value has one owner: a caller's variable, the cache slot,
\* or the local `sky` of an entry point.  heap[o] is << >> or << h >>; a
\* reference is the name of the owner's cell.
Callers == {"a", "b"}
Cells == Callers \cup {"cache", "sky"}

Deref(hp, ref) == hp[ref][1]

\* A clone that hands out the source itself instead of a copy.
HemisphereShare(hp, src, dst) == [heap |-> hp, ref |-> src]

\* sphere.rs:108 (#[derive(Clone)]): a copy of the Hemisphere at src, owned
\* by dst.
HemisphereClone(hp, src, dst) ==
    [heap |-> [hp EXCEPT ![dst] = << Deref(hp, src) >>], ref |-> dst]

\* Drop of the value owned by cell: it is freed unless a reference in refs
\* still names it.
Drop(hp, cell, refs) == IF cell \in refs THEN hp ELSE [hp EXCEPT ![cell] = << >>]

\* ------------------------------------------------------------ hemisphere cache
\* A cache that serves whatever it holds, whatever nside is asked for.
CacheHitAny(ch, nside) == Len(ch) = 1

\* cache.rs:54-55: the slot holds an entry for this nside.
CacheHit(ch, nside) == Len(ch) = 1 /\ ch[1].nside = nside

\* A cache that keeps its first entry: a miss builds but stores only into an
\* empty slot.
CacheStoreIfEmpty(hp, ch, nside, src) ==
    IF Len(ch) = 1 THEN [heap |-> hp, cache |-> ch]
    ELSE LET c == HemisphereClone(hp, src, "cache")
         IN  [heap |-> c.heap, cache |-> << [nside |-> nside, hemi |-> c.ref] >>]

\* cache.rs:63: *cache_ref = Some((nside, new_hemisphere.clone())).
CacheStore(hp, ch, nside, src) ==
    LET c == HemisphereClone(hp, src, "cache")
    IN  [heap |-> c.heap, cache |-> << [nside |-> nside, hemi |-> c.ref] >>]

\* cache.rs:49-66: the Hemisphere goes to the cell dst of the caller.
GetOrCreateHemisphere(hp, ch, nside, dst) ==
    IF CacheHit(ch, nside)
    THEN LET c == HemisphereClone(hp, ch[1].hemi, dst)
         IN  [heap |-> c.heap, cache |-> ch, ref |-> c.ref, built |-> FALSE]
    ELSE LET hp1 == [hp EXCEPT ![dst] = << HemisphereNew(nside) >>]
             st  == CacheStore(hp1, ch, nside, dst)
         IN  [heap |-> st.heap, cache |-> st.cache, ref |-> dst, built |-> TRUE]

\* lib.rs:85-89: the native build has no cache.
GetOrCreateUncached(hp, ch, nside, dst) ==
    [heap |-> [hp EXCEPT ![dst] = << HemisphereNew(nside) >>], cache |-> ch,
     ref |-> dst, built |-> TRUE]

\* cache.rs:90-95
GetCacheInfo(ch) == IF Len(ch) = 1 THEN << ch[1].nside >> ELSE << >>

\* -------------------------------------------------------------------- inputs
NsideRequests == 0..MaxNside

ArrayLens == 0..MaxBaselines

VisAt(k) == IF k % 2 = 1 THEN << Scale, 0 >> ELSE << 0, Scale \div 2 >>
UAt(k) == (k * Scale) \div 4
VAt(k) == 0 - (k * Scale) \div 8
WAt(k) == ((k - 1) * Scale) \div 10

VisArray(len) == [k \in 1..len |-> VisAt(k)]
UArray(len) == [k \in 1..len |-> UAt(k)]
VArray(len) == [k \in 1..len |-> VAt(k)]
WArray(len) == [k \in 1..len |-> WAt(k)]

\* ------------------------------------------------- cache and its callers
NoOutcome == [op |-> "none"]
Threads == {"t1", "t2"}

InitCache ==
    /\ heap = [o \in Cells |-> << >>]
    /\ cache = << >>
    /\ held = [c \in Callers |-> << >>]
    /\ requested = << >>
    /\ last = [op |-> "init"]

InitEntry == outcome = NoOutcome

InitConc ==
    /\ pc = [t \in Threads |-> "idle"]
    /\ req = [t \in Threads |-> 0]
    /\ local = [t \in Threads |-> << >>]
    /\ ret = [t \in Threads |-> << >>]
    /\ tcache = [t \in Threads |-> << >>]

\* No observation is loaded outside the specification of the array kernels.
InitKernel ==
    /\ obs = [loaded |-> FALSE]
    /\ kernel = [op |-> "none"]

InitStat ==
    /\ brightness = << >>
    /\ stats = [op |-> "none"]

InitPipe ==
    /\ dataset = [loaded |-> FALSE]
    /\ run = [op |-> "none"]

Init ==
    /\ tess = [n \in NsideRequests |-> ComputeNewScalar(n)]
    /\ target_wasm = TRUE
    /\ InitCache /\ InitEntry /\ InitConc /\ InitStat /\ InitPipe /\ InitKernel

\* A caller asks the cache for a Hemisphere and keeps it in its variable.
GetOrCreate(c, nside) ==
    /\ \E g \in {GetOrCreateHemisphere(heap, cache, nside, c)} :
          /\ heap' = g.heap
          /\ cache' = g.cache
          /\ held' = [held EXCEPT ![c] = << g.ref >>]
          /\ last' = [op |-> "get", caller |-> c, nside |-> nside, built |-> g.built,
                      ref |-> g.ref, before |-> GetCacheInfo(cache)]
    /\ requested' = << nside >>
    /\ UNCHANGED << tess, target_wasm, arrayVars, entryVars, concVars >>

\* cache.rs:74-79
ClearHemisphereCache ==
    /\ cache' = << >>
    /\ heap' = Drop(heap, "cache", {held[c][1] : c \in {d \in Callers : held[d] # << >>}})
    /\ requested' = << >>
    /\ last' = [op |-> "clear"]
    /\ UNCHANGED << tess, target_wasm, arrayVars, held, entryVars, concVars >>

\* A caller runs reconstruct on the Hemisphere it holds.
Reconstruct(c, nvis, nu, nv, nw, use_real_only) ==
    /\ held[c] # << >>
    /\ \E r \in {ReconstructSkyImage(VisArray(nvis), UArray(nu), VArray(nv), WArray(nw),
                                      Deref(heap, held[c][1]), use_real_only)} :
          /\ heap' = [heap EXCEPT ![held[c][1]] = << r.sky >>]
          /\ last' = [op |-> "reconstruct", caller |-> c, result |-> r.result,
                      baselines |-> nvis,
                      lens_equal |-> (nvis = nu /\ nvis = nv /\ nvis = nw),
                      harmonics |-> r.harmonics, fresh |-> r.fresh]
    /\ UNCHANGED << tess, target_wasm, arrayVars, cache, held, requested, entryVars, concVars >>

Next ==
    \/ \E c \in Callers, nside \in NsideRequests : GetOrCreate(c, nside)
    \/ ClearHemisphereCache
    \/ \E c \in Callers, nvis \in ArrayLens, nu \in ArrayLens, nv \in ArrayLens,
          nw \in ArrayLens, use_real_only \in BOOLEAN :
            Reconstruct(c, nvis, nu, nv, nw, use_real_only)

Spec == Init /\ [][Next]_vars

\* ------------------------------------------------------------- entry points
\* sphere_plot.rs:81-176: the image of the brightness array.  Its statistics
\* (185-229) take the median of the array and panic when it is empty
\* (utils.rs:77-90 returns None, line 214 expects a value); a template that
\* fails to render leaves the comment of lib.rs:139-142 / 147-152.
ToSvgWithFeatures(sky, render_ok) ==
    IF Len(sky.visible_pix) = 0 THEN [kind |-> "panic", image |-> << >>]
    ELSE IF render_ok THEN [kind |-> "svg", image |-> << sky.visible_pix >>]
    ELSE [kind |-> "comment", image |-> << >>]

\* lib.rs:127-157: the local `sky` lives in the cell "sky" and is dropped on
\* return.  Both arms of the match render the Hemisphere.
MakeSvgWithFeatures(hp, ch, wasm, vis, u, v, w, nside, render_ok) ==
    With(IF wasm THEN GetOrCreateHemisphere(hp, ch, nside, "sky")
         ELSE GetOrCreateUncached(hp, ch, nside, "sky"),
      LAMBDA g :
    With(ReconstructSkyImage(vis, u, v, w, Deref(g.heap, g.ref), FALSE),
      LAMBDA r :
    With(ToSvgWithFeatures(r.sky, render_ok),
      LAMBDA out :
        [heap        |-> [g.heap EXCEPT !["sky"] = << >>],
         cache       |-> g.cache,
         built       |-> g.built,
         reconstruct |-> r.result,
         returned    |-> out.kind,
         image       |-> out.image])))

\* lib.rs:197-224: the dataset is parsed (tart_api.rs:19-37 panics on JSON it
\* cannot parse); tart_obs.rs:73-76 and img.rs:39-64 make one visibility and
\* one u, v, w per record, num_vis of each.  The result is always Ok.
ProcessJsonData(hp, ch, wasm, json_ok, num_vis, nside, render_ok) ==
    IF ~json_ok
    THEN [heap |-> hp, cache |-> ch, built |-> FALSE, reconstruct |-> "none",
          returned |-> "panic", image |-> << >>]
    ELSE With(MakeSvgWithFeatures(hp, ch, wasm, VisArray(num_vis), UArray(num_vis),
                                  VArray(num_vis), WArray(num_vis), nside, render_ok),
           LAMBDA m : IF m.returned = "panic" THEN m ELSE [m EXCEPT !.returned = "Ok"])

\* A validation that looks for the input file before it looks at nside.
ArgsValidateFileFirst(nside, file_exists) ==
    IF ~file_exists THEN "FileNotFound"
    ELSE IF nside = 0 THEN "InvalidNside"
    ELSE "Ok"

\* cli/args.rs:39-51
ArgsValidate(nside, file_exists) ==
    IF nside = 0 THEN "InvalidNside"
    ELSE IF ~file_exists THEN "FileNotFound"
    ELSE "Ok"

\* cli/error.rs:27-36, and main.rs:6-14 for success; a panic ends the process
\* with the runtime's code 101.
ExitCode(error) ==
    CASE error = "none" -> 0
      [] error \in {"InvalidNside", "FileNotFound"} -> 2
      [] error = "panic" -> 101
      [] OTHER -> 1

\* cli/mod.rs:18-42
CliRun(hp, ch, nside, file_exists, read_ok, json_ok, num_vis, render_ok, write_ok) ==
    LET valid == ArgsValidate(nside, file_exists)
        none  == [heap |-> hp, cache |-> ch, built |-> FALSE, reconstruct |-> "none",
                  returned |-> "Err", image |-> << >>]
    IN  IF valid # "Ok"
        THEN [call |-> none, error |-> valid, opened |-> FALSE, written |-> FALSE]
        ELSE IF ~read_ok
        THEN [call |-> none, error |-> "FileRead", opened |-> TRUE, written |-> FALSE]
        ELSE With(ProcessJsonData(hp, ch, FALSE, json_ok, num_vis, nside, render_ok),
               LAMBDA p :
                 IF p.returned = "panic"
                 THEN [call |-> p, error |-> "panic", opened |-> TRUE, written |-> FALSE]
                 ELSE IF ~write_ok
                 THEN [call |-> [p EXCEPT !.returned = "Err"], error |-> "OutputWrite",
                       opened |-> TRUE, written |-> FALSE]
                 ELSE [call |-> p, error |-> "none", opened |-> TRUE, written |-> TRUE])

\* The nside values the entry points are called with.
EntryNsides == 0..(MaxNside + 1)

InitEntryPoints ==
    /\ tess = [n \in EntryNsides |-> ComputeNewScalar(n)]
    /\ target_wasm \in BOOLEAN
    /\ InitCache /\ InitEntry /\ InitConc /\ InitStat /\ InitPipe /\ InitKernel

\* What a call of an entry point leaves behind.
Outcome(op, nside, lens_equal, call, error, opened, written) ==
    [op |-> op, nside |-> nside, lens_equal |-> lens_equal, built |-> call.built,
     reconstruct |-> call.reconstruct, returned |-> call.returned, image |-> call.image,
     error |-> error, exit_code |-> ExitCode(error), opened |-> opened,
     written |-> written]

CallMakeSvg(nvis, nu, nv, nw, nside, render_ok) ==
    /\ \E m \in {MakeSvgWithFeatures(heap, cache, target_wasm, VisArray(nvis), UArray(nu),
                                      VArray(nv), WArray(nw), nside, render_ok)} :
          /\ heap' = m.heap
          /\ cache' = m.cache
          /\ outcome' = Outcome("make_svg", nside, nvis = nu /\ nvis = nv /\ nvis = nw, m,
                                IF m.returned = "panic" THEN "panic" ELSE "none",
                                FALSE, FALSE)
    /\ UNCHANGED << tess, target_wasm, arrayVars, held, requested, last, concVars >>

CallProcessJson(json_ok, num_vis, nside, render_ok) ==
    /\ \E p \in {ProcessJsonData(heap, cache, target_wasm, json_ok, num_vis, nside,
                                  render_ok)} :
          /\ heap' = p.heap
          /\ cache' = p.cache
          /\ outcome' = Outcome("process_json", nside, TRUE, p,
                                IF p.returned = "panic" THEN "panic" ELSE "none",
                                FALSE, FALSE)
    /\ UNCHANGED << tess, target_wasm, arrayVars, held, requested, last, concVars >>

\* main.rs:6-14: the command line tool, a native program.  The image it puts
\* out is the file it writes.
RunCli(nside, file_exists, read_ok, json_ok, num_vis, render_ok, write_ok) ==
    /\ ~target_wasm
    /\ \E r \in {CliRun(heap, cache, nside, file_exists, read_ok, json_ok, num_vis,
                         render_ok, write_ok)} :
          /\ heap' = r.call.heap
          /\ cache' = r.call.cache
          /\ outcome' = Outcome("cli", nside, TRUE,
                                [r.call EXCEPT !.image = IF r.written THEN @ ELSE << >>],
                                r.error, r.opened, r.written)
    /\ UNCHANGED << tess, target_wasm, arrayVars, held, requested, last, concVars >>

NextEntryPoints ==
    \/ \E nvis \in ArrayLens, nu \in ArrayLens, nv \in ArrayLens, nw \in ArrayLens,
          nside \in EntryNsides, render_ok \in BOOLEAN :
            CallMakeSvg(nvis, nu, nv, nw, nside, render_ok)
    \/ \E json_ok \in BOOLEAN, num_vis \in ArrayLens, nside \in EntryNsides,
          render_ok \in BOOLEAN :
            CallProcessJson(json_ok, num_vis, nside, render_ok)
    \/ \E nside \in EntryNsides, file_exists \in BOOLEAN, read_ok \in BOOLEAN,
          json_ok \in BOOLEAN, num_vis \in ArrayLens, render_ok \in BOOLEAN,
          write_ok \in BOOLEAN :
            RunCli(nside, file_exists, read_ok, json_ok, num_vis, render_ok, write_ok)

SpecEntryPoints == InitEntryPoints /\ [][NextEntryPoints]_vars

\* ------------------------------------------------------- concurrent callers
\* A slot shared by every thread.
SlotOfShared(t) == "t1"

\* cache.rs:12-14 (thread_local!): every thread has a HEMISPHERE_CACHE of its
\* own; the slot a thread sees is named after the thread.
SlotOf(t) == t

\* cache.rs:49: a thread enters get_or_create_hemisphere(nside).
Call(t, nside) ==
    /\ pc[t] = "idle"
    /\ pc' = [pc EXCEPT ![t] = "check"]
    /\ req' = [req EXCEPT ![t] = nside]
    /\ ret' = [ret EXCEPT ![t] = << >>]
    /\ UNCHANGED << tess, target_wasm, arrayVars, cacheVars, entryVars, local, tcache >>

\* cache.rs:51-55: the slot is borrowed and its key compared with nside.
Check(t) ==
    /\ pc[t] = "check"
    /\ pc' = [pc EXCEPT ![t] = IF CacheHit(tcache[SlotOf(t)], req[t]) THEN "clone" ELSE "build"]
    /\ UNCHANGED << tess, target_wasm, arrayVars, cacheVars, entryVars, req, local, ret, tcache >>

\* cache.rs:56: return cached_hemisphere.clone().
CloneHit(t) ==
    /\ pc[t] = "clone"
    /\ local' = [local EXCEPT ![t] = << tcache[SlotOf(t)][1].hemi >>]
    /\ pc' = [pc EXCEPT ![t] = "return"]
    /\ UNCHANGED << tess, target_wasm, arrayVars, cacheVars, entryVars, req, ret, tcache >>

\* cache.rs:61: let new_hemisphere = Hemisphere::new(nside).
Build(t) ==
    /\ pc[t] = "build"
    /\ local' = [local EXCEPT ![t] = << HemisphereNew(req[t]) >>]
    /\ pc' = [pc EXCEPT ![t] = "store"]
    /\ UNCHANGED << tess, target_wasm, arrayVars, cacheVars, entryVars, req, ret, tcache >>

\* cache.rs:63: *cache_ref = Some((nside, new_hemisphere.clone())).
Store(t) ==
    /\ pc[t] = "store"
    /\ tcache' = [tcache EXCEPT ![SlotOf(t)] = << [nside |-> req[t], hemi |-> local[t][1]] >>]
    /\ pc' = [pc EXCEPT ![t] = "return"]
    /\ UNCHANGED << tess, target_wasm, arrayVars, cacheVars, entryVars, req, local, ret >>

\* cache.rs:56 / 65: the Hemisphere goes to the caller.
Return(t) ==
    /\ pc[t] = "return"
    /\ ret' = [ret EXCEPT ![t] = local[t]]
    /\ local' = [local EXCEPT ![t] = << >>]
    /\ pc' = [pc EXCEPT ![t] = "idle"]
    /\ UNCHANGED << tess, target_wasm, arrayVars, cacheVars, entryVars, req, tcache >>

NextConcurrent ==
    \E t \in Threads :
        \/ \E nside \in NsideRequests : Call(t, nside)
        \/ Check(t)
        \/ CloneHit(t)
        \/ Build(t)
        \/ Store(t)
        \/ Return(t)

SpecConcurrent == Init /\ [][NextConcurrent]_vars

\* ------------------------------------------------- Hemisphere life cycle
\* An encoder that writes the pixel count of the full sphere as npix.
HemisphereDataFullCount(h) ==
    [nside           |-> h.nside,
     npix            |-> NHash(h.nside),
     visible_indices |-> h.visible_indices,
     l_coords        |-> h.l,
     m_coords        |-> h.m,
     n_coords        |-> h.n,
     elaz_el         |-> [k \in 1..Len(h.elaz) |-> h.elaz[k].el],
     elaz_az         |-> [k \in 1..Len(h.elaz) |-> h.elaz[k].az]]

\* sphere.rs:240-260: the fields to_binary encodes; the brightness array is
\* not among them.
HemisphereData(h) ==
    [nside           |-> h.nside,
     npix            |-> h.npix,
     visible_indices |-> h.visible_indices,
     l_coords        |-> h.l,
     m_coords        |-> h.m,
     n_coords        |-> h.n,
     elaz_el         |-> [k \in 1..Len(h.elaz) |-> h.elaz[k].el],
     elaz_az         |-> [k \in 1..Len(h.elaz) |-> h.elaz[k].az]]

\* A vector on the wire: its length, then its elements.
EncodeVec(v) == << Len(v) >> \o v

\* sphere.rs:262 (bitcode::encode): the fields in declaration order, one word
\* per number.
Encode(d) ==
    << d.nside, d.npix >> \o EncodeVec(d.visible_indices) \o EncodeVec(d.l_coords)
       \o EncodeVec(d.m_coords) \o EncodeVec(d.n_coords) \o EncodeVec(d.elaz_el)
       \o EncodeVec(d.elaz_az)

\* sphere.rs:238-263
ToBinary(h) == Encode(HemisphereData(h))

RECURSIVE DecodeVecs(_, _, _, _)
\* Reads count vectors from position pos on; fails on a length that runs past
\* the end of the data and on data left over after the last vector.
DecodeVecs(binary_data, pos, count, vecs) ==
    IF count = 0
    THEN [ok |-> pos = Len(binary_data) + 1, vecs |-> vecs]
    ELSE IF pos > Len(binary_data) THEN [ok |-> FALSE, vecs |-> vecs]
    ELSE LET len == binary_data[pos]
         IN  IF len < 0 \/ pos + len > Len(binary_data) THEN [ok |-> FALSE, vecs |-> vecs]
             ELSE DecodeVecs(binary_data, pos + len + 1, count - 1,
                             Append(vecs, SubSeq(binary_data, pos + 1, pos + len)))

\* sphere.rs:279-280 (bitcode::decode)
Decode(binary_data) ==
    IF Len(binary_data) < 2 THEN [ok |-> FALSE]
    ELSE LET r == DecodeVecs(binary_data, 3, 6, << >>)
         IN  IF ~r.ok THEN [ok |-> FALSE]
             ELSE [ok |-> TRUE,
                   data |-> [nside           |-> binary_data[1],
                             npix            |-> binary_data[2],
                             visible_indices |-> r.vecs[1],
                             l_coords        |-> r.vecs[2],
                             m_coords        |-> r.vecs[3],
                             n_coords        |-> r.vecs[4],
                             elaz_el         |-> r.vecs[5],
                             elaz_az         |-> r.vecs[6]]]

Min(a, b) == IF a < b THEN a ELSE b

\* A decoder that reads the two angle vectors in the other order.
FromBinaryAnglesSwapped(binary_data) ==
    LET d == Decode(binary_data)
    IN  IF ~d.ok THEN [ok |-> FALSE, hemi |-> << >>]
        ELSE LET data == d.data
                 pairs == Min(Len(data.elaz_el), Len(data.elaz_az))
             IN  [ok |-> TRUE,
                  hemi |-> << [nside           |-> data.nside,
                               npix            |-> data.npix,
                               visible_pix     |-> [k \in 1..data.npix |-> 0],
                               visible_indices |-> data.visible_indices,
                               elaz            |-> [k \in 1..pairs |->
                                                      [el |-> data.elaz_az[k],
                                                       az |-> data.elaz_el[k]]],
                               l               |-> data.l_coords,
                               m               |-> data.m_coords,
                               n               |-> data.n_coords] >>]

\* sphere.rs:266-299: the angles are zipped pairwise, the brightness array is
\* zeros(npix).
FromBinary(binary_data) ==
    LET d == Decode(binary_data)
    IN  IF ~d.ok THEN [ok |-> FALSE, hemi |-> << >>]
        ELSE LET data == d.data
                 pairs == Min(Len(data.elaz_el), Len(data.elaz_az))
             IN  [ok |-> TRUE,
                  hemi |-> << [nside           |-> data.nside,
                               npix            |-> data.npix,
                               visible_pix     |-> [k \in 1..data.npix |-> 0],
                               visible_indices |-> data.visible_indices,
                               elaz            |-> [k \in 1..pairs |->
                                                      [el |-> data.elaz_el[k],
                                                       az |-> data.elaz_az[k]]],
                               l               |-> data.l_coords,
                               m               |-> data.m_coords,
                               n               |-> data.n_coords] >>]

\* sphere.rs:302-305
CloneViaBinary(h) == FromBinary(ToBinary(h))

\* The owner whose Hemisphere is followed through its life.
HemisphereOwners == {"a"}

\* One visibility and one baseline (u, v, w) handed to reconstruct.
Visibilities == { << Scale, 0 >>, << 0, Scale \div 2 >> }
BaselineUvw == { << 0, 0, 0 >>, << Scale \div 4, 0 - Scale \div 8, 0 >>,
                 << 0, 0, Scale \div 10 >> }

\* sphere.rs:122-131: on wasm32 (built with the simd feature) Hemisphere::new
\* is the batched build, elsewhere the scalar one.
InitHemisphere ==
    /\ target_wasm \in BOOLEAN
    /\ tess = [n \in NsideRequests |->
                 IF target_wasm THEN ComputeHemisphereSimd(n) ELSE ComputeNewScalar(n)]
    /\ InitCache /\ InitEntry /\ InitConc /\ InitStat /\ InitPipe /\ InitKernel

\* A caller builds a Hemisphere itself, without the cache.
NewHemisphere(c, nside) ==
    /\ heap' = [heap EXCEPT ![c] = << HemisphereNew(nside) >>]
    /\ held' = [held EXCEPT ![c] = << c >>]
    /\ last' = [op |-> "new", caller |-> c, nside |-> nside]
    /\ UNCHANGED << tess, target_wasm, arrayVars, cache, requested, entryVars, concVars >>

\* A caller runs reconstruct with one visibility on the Hemisphere it holds;
\* short_w hands over an empty w array.  had_other: the Hemisphere held
\* another image, not all zero, before the call.
ReconstructBaseline(c, vis, uvw, short_w, use_real_only) ==
    /\ held[c] # << >>
    /\ \E r \in {ReconstructSkyImage(<< vis >>, << uvw[1] >>, << uvw[2] >>,
                                      IF short_w THEN << >> ELSE << uvw[3] >>,
                                      Deref(heap, held[c][1]), use_real_only)} :
          /\ heap' = [heap EXCEPT ![held[c][1]] = << r.sky >>]
          /\ last' = [op |-> "reconstruct", caller |-> c, result |-> r.result,
                      baselines |-> 1, lens_equal |-> ~short_w,
                      harmonics |-> r.harmonics, fresh |-> r.fresh,
                      vis |-> vis, uvw |-> uvw, real_only |-> use_real_only,
                      had_other |-> /\ Deref(heap, held[c][1]).visible_pix # r.fresh
                                    /\ \E p \in 1..Len(Deref(heap, held[c][1]).visible_pix) :
                                          Deref(heap, held[c][1]).visible_pix[p] # 0]
    /\ UNCHANGED << tess, target_wasm, arrayVars, cache, held, requested, entryVars,
                    concVars >>

\* sphere.rs:302-305: a caller replaces the Hemisphere it holds by its binary
\* round trip.
BinaryRoundTrip(c) ==
    /\ held[c] # << >>
    /\ \E r \in {CloneViaBinary(Deref(heap, held[c][1]))} :
          /\ heap' = IF r.ok THEN [heap EXCEPT ![held[c][1]] = r.hemi] ELSE heap
          /\ last' = [op |-> "binary", caller |-> c, ok |-> r.ok,
                      had_image |-> \E p \in 1..Len(Deref(heap, held[c][1]).visible_pix) :
                                        Deref(heap, held[c][1]).visible_pix[p] # 0]
    /\ UNCHANGED << tess, target_wasm, arrayVars, cache, held, requested, entryVars,
                    concVars >>

NextHemisphere ==
    \/ \E c \in HemisphereOwners, nside \in NsideRequests : NewHemisphere(c, nside)
    \/ \E c \in HemisphereOwners, nside \in NsideRequests : GetOrCreate(c, nside)
    \/ ClearHemisphereCache
    \/ \E c \in HemisphereOwners, vis \in Visibilities, uvw \in BaselineUvw,
          short_w \in BOOLEAN, use_real_only \in BOOLEAN :
            ReconstructBaseline(c, vis, uvw, short_w, use_real_only)
    \/ \E c \in HemisphereOwners : BinaryRoundTrip(c)

SpecHemisphere == InitHemisphere /\ [][NextHemisphere]_vars

\* ------------------------------------------------------------ array kernels
\* utils.rs:13-15: C / L1_FREQUENCY = 0.1903 m.
L1_WAVELENGTH == 1903

\* cos on [0, pi/2] by its series to x^10.
CosSeries(x) ==
    LET x2 == FxMul(x, x)
        p  == PolyScale - PolyMul(x2, RDiv(PolyScale, 2) - PolyMul(x2, RDiv(PolyScale, 24)
                  - PolyMul(x2, RDiv(PolyScale, 720) - PolyMul(x2, RDiv(PolyScale, 40320)
                  - RDiv(x2 * 100, 3628800)))))
    IN  RDiv(p, 100)

\* f32::sin_cos of the standard library: <<sin, cos>>.
SinCos(x) ==
    LET turns   == RDiv(x, TWO_PI)
        angle   == x - turns * TWO_PI
        reduced == IF Abs(angle) <= PI_HALF THEN Abs(angle) ELSE PI - Abs(angle)
    IN  << (IF angle >= 0 THEN 1 ELSE -1) * SinSeries(reduced),
           (IF Abs(angle) <= PI_HALF THEN 1 ELSE -1) * CosSeries(reduced) >>

\* num::Complex: exp of a number whose real part is -0.0, as theta is at
\* tart_obs.rs:121.
ComplexExp(z) == << SinCos(z[2])[2], SinCos(z[2])[1] >>

\* num::Complex: product of two complex numbers.
CMul(a, b) ==
    << FxMul(a[1], b[1]) - FxMul(a[2], b[2]), FxMul(a[1], b[2]) + FxMul(a[2], b[1]) >>

\* A scaling that adds the factor to both parts.
CScaleByAdding(z, g) == << z[1] + g, z[2] + g >>

\* num::Complex: product of a complex number and an f32.
CScale(z, g) == << FxMul(z[1], g), FxMul(z[2], g) >>

\* tart_obs.rs:117-125 (and wasm/tart_obs_simd.rs:145-153, 180-188): the
\* calibrated visibility of index k (1-based; antenna indices are 0-based).
CalibrateScalar(baselines, vis_arr, cal, k) ==
    LET i == baselines[k][1] + 1
        j == baselines[k][2] + 1
        theta == << 0, 0 - (cal.phase_offset[i] - cal.phase_offset[j]) >>
    IN  CMul(CScale(CScale(vis_arr[k], cal.gain[i]), cal.gain[j]), ComplexExp(theta))

\* tart_obs.rs:110-128
ApplyGainsScalar(baselines, vis_arr, cal) ==
    [k \in 1..Len(baselines) |-> CalibrateScalar(baselines, vis_arr, cal, k)]

\* wasm/tart_obs_simd.rs:64-141: one lane of a batch of four.
CalibrateLane(baselines, vis_arr, cal, k) ==
    LET i == baselines[k][1] + 1
        j == baselines[k][2] + 1
        phase == 0 - (cal.phase_offset[i] - cal.phase_offset[j])
        sc    == FastSinCos(phase)
        gain  == FxMul(cal.gain[i], cal.gain[j])
    IN  CMul(CScale(vis_arr[k], gain), << sc[2], sc[1] >>)

\* wasm/tart_obs_simd.rs:48-156
ApplyGainsOptimizedSimd(baselines, vis_arr, cal) ==
    LET num_vis   == Len(baselines)
        chunks    == num_vis \div 4
        remainder == num_vis % 4
        chunked   == [k \in 1..(4 * chunks) |->
                         CalibrateLane(baselines, vis_arr, cal,
                                       ((k - 1) \div 4) * 4 + ((k - 1) % 4) + 1)]
        rest      == [k \in 1..remainder |->
                         CalibrateScalar(baselines, vis_arr, cal, chunks * 4 + k)]
    IN  chunked \o rest

\* tart_obs.rs:99-128: the batched kernel on wasm32, the scalar one elsewhere.
ApplyGainsOptimized(wasm, baselines, vis_arr, cal) ==
    IF wasm THEN ApplyGainsOptimizedSimd(baselines, vis_arr, cal)
    ELSE ApplyGainsScalar(baselines, vis_arr, cal)

\* A spatial frequency of the sum of the two coordinates.
SpatialFrequencyOfSum(a, b) == FxDiv(a + b, L1_WAVELENGTH)

\* img.rs:12-14 (and wasm/img_simd.rs:15-17)
SpatialFrequency(a, b) == FxDiv(a - b, L1_WAVELENGTH)

\* img.rs:52-58: <<u, v, w>> of baseline k.
UvwScalar(baselines, x, y, z, k) ==
    LET i == baselines[k][1] + 1
        j == baselines[k][2] + 1
    IN  << SpatialFrequency(x[i], x[j]), SpatialFrequency(y[i], y[j]),
           SpatialFrequency(z[i], z[j]) >>

\* img.rs:39-64
GetUvwScalar(baselines, x, y, z) ==
    [k \in 1..Len(baselines) |-> UvwScalar(baselines, x, y, z, k)]

\* wasm/img_simd.rs:61, 71-139: one lane of a batch of four; the difference is
\* multiplied by the inverse wavelength computed once.
UvwLane(baselines, x, y, z, k) ==
    LET i == baselines[k][1] + 1
        j == baselines[k][2] + 1
        inv_wavelength == FxDiv(Scale, L1_WAVELENGTH)
    IN  << FxMul(x[i] - x[j], inv_wavelength), FxMul(y[i] - y[j], inv_wavelength),
           FxMul(z[i] - z[j], inv_wavelength) >>

\* wasm/img_simd.rs:47-157
GetUvwSimd(baselines, x, y, z) ==
    LET num_baselines == Len(baselines)
        chunks    == num_baselines \div 4
        remainder == num_baselines % 4
        chunked   == [k \in 1..(4 * chunks) |->
                         UvwLane(baselines, x, y, z,
                                 ((k - 1) \div 4) * 4 + ((k - 1) % 4) + 1)]
        rest      == [k \in 1..remainder |-> UvwScalar(baselines, x, y, z, chunks * 4 + k)]
    IN  chunked \o rest

\* A get_uvw that returns the baselines last to first.
GetUvwReversed(wasm, baselines, x, y, z) ==
    LET out == IF wasm THEN GetUvwSimd(baselines, x, y, z)
               ELSE GetUvwScalar(baselines, x, y, z)
    IN  [k \in 1..Len(out) |-> out[Len(out) + 1 - k]]

\* A get_uvw with one output per antenna, its offset from the first, in
\* wavelengths.
GetUvwPerAntenna(wasm, baselines, x, y, z) ==
    GetUvwScalar([a \in 1..Len(x) |-> << 0, a - 1 >>], x, y, z)

\* img.rs:24-64: the batched kernel on wasm32, the scalar one elsewhere.
GetUvw(wasm, baselines, x, y, z) ==
    IF wasm THEN GetUvwSimd(baselines, x, y, z) ELSE GetUvwScalar(baselines, x, y, z)

\* wasm/gridless_simd.rs:276-285 (and 220-252, 292-302): what one baseline
\* adds to pixel p.
PixelTerm(l_coords, m_coords, n_minus_one, visibility, u, v, w, phase_mult, p) ==
    LET phase == FxMul(phase_mult, FxMul(u, l_coords[p]) + FxMul(v, m_coords[p])
                                     + FxMul(w, n_minus_one[p]))
        sc    == FastSinCos(phase)
    IN  << FxMul(visibility[1], sc[2]) - FxMul(visibility[2], sc[1]),
           FxMul(visibility[1], sc[1]) + FxMul(visibility[2], sc[2]) >>

\* Sum of two complex numbers.
CAdd(a, b) == << a[1] + b[1], a[2] + b[2] >>

\* wasm/gridless_simd.rs:292-303: one baseline added pixel by pixel.
ScalarAccumulateBaseline(complex_pixels, l_coords, m_coords, n_minus_one, visibility, u, v, w, phase_mult) ==
    [p \in 1..Len(complex_pixels) |->
        CAdd(complex_pixels[p],
             PixelTerm(l_coords, m_coords, n_minus_one, visibility, u, v, w, phase_mult, p))]

\* wasm/gridless_simd.rs:170-287: one baseline added four pixels at a time,
\* then the pixels from chunks * 4 on one at a time.
SimdAccumulateBaseline(complex_pixels, l_coords, m_coords, n_minus_one, visibility, u, v, w, phase_mult) ==
    LET num_pixels == Len(complex_pixels)
        chunks     == num_pixels \div 4
        chunked    == [k \in 1..(4 * chunks) |->
                          LET pixel_idx == ((k - 1) \div 4) * 4 + ((k - 1) % 4) + 1
                          IN  CAdd(complex_pixels[pixel_idx],
                                   PixelTerm(l_coords, m_coords, n_minus_one, visibility,
                                             u, v, w, phase_mult, pixel_idx))]
        rest       == [k \in 1..(num_pixels - chunks * 4) |->
                          CAdd(complex_pixels[chunks * 4 + k],
                               PixelTerm(l_coords, m_coords, n_minus_one, visibility,
                                         u, v, w, phase_mult, chunks * 4 + k))]
    IN  chunked \o rest

RECURSIVE AccumulateChunk(_, _, _, _, _)
\* wasm/gridless_simd.rs:89-107 / 113-130: the baselines of baseline_chunk,
\* from its k-th on, added to local_pixels; a holds the arrays of the call.
AccumulateChunk(a, baseline_chunk, k, local_pixels, batched) ==
    IF k > Len(baseline_chunk) THEN local_pixels
    ELSE LET b == baseline_chunk[k]
         IN  AccumulateChunk(a, baseline_chunk, k + 1,
                 IF batched
                 THEN SimdAccumulateBaseline(local_pixels, a.l, a.m, a.n_minus_one,
                                             a.vis[b], a.u[b], a.v[b], a.w[b], 0 - TWO_PI)
                 ELSE ScalarAccumulateBaseline(local_pixels, a.l, a.m, a.n_minus_one,
                                               a.vis[b], a.u[b], a.v[b], a.w[b], 0 - TWO_PI),
                 batched)

\* usize::div_ceil
DivCeil(a, b) == (a + b - 1) \div b

\* A split that leaves out the last, shorter chunk.
ParChunksWhole(num_baselines, chunk_size) ==
    [c \in 1..(num_baselines \div chunk_size) |->
        [i \in 1..chunk_size |-> (c - 1) * chunk_size + i]]

\* wasm/gridless_simd.rs:83-85 (par_chunks): the baseline indices 1 ..
\* num_baselines in chunks of chunk_size, the last one shorter.
ParChunks(num_baselines, chunk_size) ==
    [c \in 1..DivCeil(num_baselines, chunk_size) |->
        [i \in 1..Min(chunk_size, num_baselines - (c - 1) * chunk_size) |->
            (c - 1) * chunk_size + i]]

\* wasm/gridless_simd.rs:79: the parallel path is taken from 4 baselines and
\* above ParallelPixels pixels (1000 in the code, scaled to the pixel counts
\* of the model).
ParallelBaselines == 4
ParallelPixels == 4

IsParallel(a) == Len(a.vis) >= ParallelBaselines /\ Len(a.l) > ParallelPixels

\* wasm/gridless_simd.rs:81-85: the chunks the workers are given; one chunk
\* with every baseline on the sequential path.
BaselineChunks(a, threads) ==
    IF IsParallel(a) THEN ParChunks(Len(a.vis), DivCeil(Len(a.vis), threads))
    ELSE << [i \in 1..Len(a.vis) |-> i] >>

RECURSIVE Reduce(_, _, _, _)
\* wasm/gridless_simd.rs:110 (reduce): the local results added to the
\* identity in the order merge.
Reduce(locals, merge, k, acc) ==
    IF k > Len(merge) THEN acc
    ELSE Reduce(locals, merge, k + 1,
                [p \in 1..Len(acc) |-> CAdd(acc[p], locals[merge[k]][p])])

\* wasm/gridless_simd.rs:72-131: the accumulated complex pixels.
AccumulateSimd(a, threads, merge) ==
    LET zeros  == [p \in 1..Len(a.l) |-> << 0, 0 >>]
        chunks == BaselineChunks(a, threads)
    IN  IF IsParallel(a)
        THEN Reduce([c \in 1..Len(chunks) |-> AccumulateChunk(a, chunks[c], 1, zeros, TRUE)],
                    merge, 1, zeros)
        ELSE AccumulateChunk(a, chunks[1], 1, zeros, TRUE)

\* gridless_core.rs:139-163: harmonics first, then the accumulation.
AccumulateCore(a) ==
    LET sky == [visible_pix |-> [p \in 1..Len(a.l) |-> 0], l |-> a.l, m |-> a.m,
                n |-> [p \in 1..Len(a.l) |-> a.n_minus_one[p] + Scale]]
    IN  Accumulate(a.vis, ComputeFourierHarmonics(sky, a.u, a.v, a.w), 1,
                   [p \in 1..Len(a.l) |-> << 0, 0 >>])

\* wasm/bindings.rs:139 calls the batched reconstruct on wasm32; elsewhere
\* lib.rs:144 calls the core one.
AccumulatePixels(wasm, a, threads, merge) ==
    IF wasm THEN AccumulateSimd(a, threads, merge) ELSE AccumulateCore(a)

\* ------------------------------------------------ inputs of the array kernels
\* Longest baseline list handed to the kernels.
MaxKernelLen == 5
\* Largest number of pixels accumulated into.
MaxPixels == 6
\* Largest rayon::current_num_threads().
MaxThreads == 3

\* Antenna pairs of the baselines, repeating every four; the fourth pairs an
\* antenna with itself.
BaselineAt(k) ==
    CASE (k - 1) % 4 = 0 -> << 0, 1 >>
      [] (k - 1) % 4 = 1 -> << 0, 2 >>
      [] (k - 1) % 4 = 2 -> << 1, 2 >>
      [] OTHER -> << 2, 2 >>

\* tart_api.rs (Gains): gains 1.0 and phase offsets 0.0, or a calibration
\* that changes the visibilities.
GainsOf(unit) ==
    IF unit THEN [gain |-> << Scale, Scale, Scale >>, phase_offset |-> << 0, 0, 0 >>]
    ELSE [gain |-> << Scale, 11000, 9000 >>, phase_offset |-> << 0, 15000, -500 >>]

\* tart_api.rs (AntPosition), in metres: three antennas, the first two at one
\* place when colocated.
AntennasOf(colocated) ==
    IF colocated
    THEN [x |-> << 12000, 12000, -13000 >>, y |-> << -7000, -7000, 15000 >>,
          z |-> << 500, 500, 0 >>]
    ELSE [x |-> << 0, 12500, -13000 >>, y |-> << 0, -7000, 15000 >>,
          z |-> << 0, 500, 1000 >>]

\* The arrays of one observation with num_vis baselines and of num_pixels
\* pixels of the Hemisphere hemi.
Observation(num_vis, num_pixels, hemi) ==
    [loaded    |-> TRUE,
     baselines |-> [k \in 1..num_vis |-> BaselineAt(k)],
     vis_arr   |-> VisArray(num_vis),
     acc       |-> [vis |-> VisArray(num_vis), u |-> UArray(num_vis),
                    v |-> VArray(num_vis), w |-> WArray(num_vis),
                    l |-> SubSeq(hemi.l, 1, num_pixels),
                    m |-> SubSeq(hemi.m, 1, num_pixels),
                    n_minus_one |-> [p \in 1..num_pixels |-> hemi.n[p] - Scale]]]

\* The Hemisphere whose first pixels the kernels accumulate into.
KernelNside == 2

InitKernels ==
    /\ target_wasm \in BOOLEAN
    /\ tess = [n \in {KernelNside} |-> ComputeNewScalar(n)]
    /\ InitCache /\ InitEntry /\ InitConc /\ InitStat /\ InitPipe
    /\ \E num_vis \in 0..MaxKernelLen, num_pixels \in 0..MaxPixels :
          obs = Observation(num_vis, num_pixels, tess[KernelNside])
    /\ kernel = [op |-> "none"]

\* The orders in which n items are taken: every rotation of 1 .. n, forwards
\* and backwards.
Orders(n) ==
    {[i \in 1..n |-> ((i - 1 + r) % n) + 1] : r \in 0..(n - 1)}
      \cup {[i \in 1..n |-> ((n - i + r) % n) + 1] : r \in 0..(n - 1)}
      \cup {[i \in 1..n |-> i]}

RECURSIVE Flatten(_, _)
\* The entries of the sequences of seqs from its k-th on, in order.
Flatten(seqs, k) == IF k > Len(seqs) THEN << >> ELSE seqs[k] \o Flatten(seqs, k + 1)

\* The scalar loop over the baselines of a in the order `order`.
AccumulateScalar(a, order) ==
    AccumulateChunk(a, order, 1, [p \in 1..Len(a.l) |-> << 0, 0 >>], FALSE)

\* tart_obs.rs:80: the gains are applied to the visibilities of obs; each
\* kernel runs once on a fresh observation.
ApplyGains(unit) ==
    /\ obs.loaded /\ kernel.op = "none"
    /\ kernel' = [op     |-> "apply_gains",
                  unit   |-> unit,
                  out    |-> ApplyGainsOptimized(target_wasm, obs.baselines, obs.vis_arr,
                                                 GainsOf(unit)),
                  scalar |-> ApplyGainsScalar(obs.baselines, obs.vis_arr, GainsOf(unit))]
    /\ UNCHANGED << tess, target_wasm, statVars, pipeVars, cacheVars, entryVars, concVars, obs >>

\* lib.rs:238-242 (get_uvw_from_obs): the baseline coordinates of obs.
ComputeUvw(colocated) ==
    /\ obs.loaded /\ kernel.op = "none"
    /\ \E ant \in {AntennasOf(colocated)} :
          \E out \in {GetUvw(target_wasm, obs.baselines, ant.x, ant.y, ant.z)} :
             kernel' = [op     |-> "get_uvw",
                        ant    |-> ant,
                        out    |-> out,
                        u      |-> [k \in 1..Len(out) |-> out[k][1]],
                        v      |-> [k \in 1..Len(out) |-> out[k][2]],
                        w      |-> [k \in 1..Len(out) |-> out[k][3]],
                        scalar |-> GetUvwScalar(obs.baselines, ant.x, ant.y, ant.z)]
    /\ UNCHANGED << tess, target_wasm, statVars, pipeVars, cacheVars, entryVars, concVars, obs >>

\* The accumulation of reconstruct on obs with threads worker threads whose
\* local results are merged in the order merge.
AccumulateKernel(threads, merge) ==
    /\ obs.loaded /\ kernel.op = "none"
    /\ kernel' = [op       |-> "accumulate",
                  out      |-> AccumulatePixels(target_wasm, obs.acc, threads, merge),
                  scalar   |-> AccumulateScalar(obs.acc, [i \in 1..Len(obs.acc.vis) |-> i]),
                  parallel |-> target_wasm /\ IsParallel(obs.acc),
                  chunks   |-> Len(BaselineChunks(obs.acc, threads)),
                  taken    |-> Flatten(BaselineChunks(obs.acc, threads), 1),
                  merge    |-> merge]
    /\ UNCHANGED << tess, target_wasm, statVars, pipeVars, cacheVars, entryVars, concVars, obs >>

\* The loop of wasm/gridless_simd.rs:113-130 given the baselines of obs in
\* the order `order`.
AccumulateInOrder(order) ==
    /\ obs.loaded /\ kernel.op = "none"
    /\ kernel' = [op     |-> "accumulate_in_order",
                  out    |-> AccumulateChunk(obs.acc, order, 1,
                                             [p \in 1..Len(obs.acc.l) |-> << 0, 0 >>],
                                             target_wasm),
                  scalar |-> AccumulateScalar(obs.acc, [i \in 1..Len(obs.acc.vis) |-> i]),
                  taken  |-> order]
    /\ UNCHANGED << tess, target_wasm, statVars, pipeVars, cacheVars, entryVars, concVars, obs >>

\* gridless_core.rs:54-86: the closure a worker runs for baseline_idx
\* (1-based here): the <<cos, sin>> of every visible pixel.
BaselineHarmonics(sky, u_coords, v_coords, w_coords, baseline_idx) ==
    LET u == u_coords[baseline_idx]
        v == v_coords[baseline_idx]
        w == w_coords[baseline_idx]
    IN  [p \in 1..Len(sky.visible_pix) |->
            LET phase == FxMul(0 - TWO_PI, FxMul(u, sky.l[p]) + FxMul(v, sky.m[p])
                                             + FxMul(w, sky.n[p] - Scale))
                sc    == FastSinCos(phase)
            IN  << sc[2], sc[1] >>]

RECURSIVE CollectAsFinished(_, _, _)
\* A collect that appends the results in the order the workers finish.
CollectAsFinished(results, finished, k) ==
    IF k > Len(finished) THEN << >>
    ELSE << results[finished[k]] >> \o CollectAsFinished(results, finished, k + 1)

RECURSIVE Collect(_, _, _)
\* gridless_core.rs:52-53, 88 (rayon: into_par_iter on a range, map,
\* collect): the workers finish in the order `finished`; the result of index
\* i is placed at position i.
Collect(results, finished, k) ==
    IF k > Len(finished) THEN [i \in 1..Len(finished) |-> << >>]
    ELSE [Collect(results, finished, k + 1) EXCEPT ![finished[k]] = results[finished[k]]]

\* gridless_core.rs:39-89 with the workers finishing in the order `finished`.
ComputeFourierHarmonicsPar(sky, u_coords, v_coords, w_coords, finished) ==
    Collect([b \in 1..Len(u_coords) |->
                BaselineHarmonics(sky, u_coords, v_coords, w_coords, b)],
            finished, 1)

\* The Hemisphere fields the harmonics read, from the pixel arrays of a.
SkyOf(a) ==
    [visible_pix |-> [p \in 1..Len(a.l) |-> 0], l |-> a.l, m |-> a.m,
     n |-> [p \in 1..Len(a.l) |-> a.n_minus_one[p] + Scale]]

\* The coordinates coords with every entry but the k-th changed.
ChangedButAt(coords, k) ==
    [j \in 1..Len(coords) |-> IF j = k THEN coords[j] ELSE 0 - coords[j] - 1]

\* The harmonics of obs, with the workers finishing in the order `finished`;
\* and again, in order, with the coordinates of every baseline but the k-th
\* changed.
ComputeHarmonics(finished, k) ==
    /\ obs.loaded /\ kernel.op = "none"
    /\ \E sky \in {SkyOf(obs.acc)} :
          kernel' = [op       |-> "harmonics",
                     k        |-> k,
                     finished |-> finished,
                     pixels   |-> Len(sky.visible_pix),
                     out      |-> ComputeFourierHarmonicsPar(sky, obs.acc.u, obs.acc.v,
                                                             obs.acc.w, finished),
                     inorder  |-> ComputeFourierHarmonics(sky, obs.acc.u, obs.acc.v,
                                                          obs.acc.w),
                     changed  |-> ComputeFourierHarmonics(sky,
                                      ChangedButAt(obs.acc.u, k), ChangedButAt(obs.acc.v, k),
                                      ChangedButAt(obs.acc.w, k))]
    /\ UNCHANGED << tess, target_wasm, statVars, pipeVars, cacheVars, entryVars, concVars, obs >>

\* The visibilities vis_arr with every entry but the k-th changed.
ChangedVisButAt(vis_arr, k) ==
    [j \in 1..Len(vis_arr) |->
        IF j = k THEN vis_arr[j] ELSE << vis_arr[j][2] + 1, 0 - vis_arr[j][1] >>]

\* The calibration cal with the gain and phase offset of every antenna that
\* is not one of the pair changed.
ChangedGainsBut(cal, pair) ==
    [gain         |-> [a \in 1..Len(cal.gain) |->
                          IF a - 1 \in {pair[1], pair[2]} THEN cal.gain[a]
                          ELSE cal.gain[a] + Scale \div 2],
     phase_offset |-> [a \in 1..Len(cal.phase_offset) |->
                          IF a - 1 \in {pair[1], pair[2]} THEN cal.phase_offset[a]
                          ELSE cal.phase_offset[a] + Scale \div 4]]

\* tart_obs.rs:99-128 called three times: on obs; on obs with the other
\* visibilities and the gains of the other antennas changed; and on baseline
\* k with its visibility alone.
ApplyGainsElementwise(k) ==
    /\ obs.loaded /\ kernel.op = "none"
    /\ \E cal \in {GainsOf(FALSE)} :
          kernel' = [op      |-> "apply_gains_elementwise",
                     k       |-> k,
                     out     |-> ApplyGainsOptimized(target_wasm, obs.baselines,
                                                     obs.vis_arr, cal),
                     changed |-> ApplyGainsOptimized(target_wasm, obs.baselines,
                                     ChangedVisButAt(obs.vis_arr, k),
                                     IF k = 0 THEN cal
                                     ELSE ChangedGainsBut(cal, obs.baselines[k])),
                     alone   |-> IF k = 0 THEN << >>
                                 ELSE ApplyGainsOptimized(target_wasm, << obs.baselines[k] >>,
                                                          << obs.vis_arr[k] >>, cal)]
    /\ UNCHANGED << tess, target_wasm, statVars, pipeVars, cacheVars, entryVars, concVars, obs >>

NextKernels ==
    \/ \E unit \in BOOLEAN : ApplyGains(unit)
    \/ \E colocated \in BOOLEAN : ComputeUvw(colocated)
    \/ \E threads \in 1..MaxThreads :
          \E merge \in Orders(Len(BaselineChunks(obs.acc, threads))) :
              AccumulateKernel(threads, merge)
    \/ \E order \in Orders(Len(obs.acc.vis)) : AccumulateInOrder(order)
    \/ \E finished \in Orders(Len(obs.acc.u)), k \in 0..Len(obs.acc.u) :
          ComputeHarmonics(finished, k)
    \/ \E k \in 0..Len(obs.baselines) : ApplyGainsElementwise(k)

SpecKernels == InitKernels /\ [][NextKernels]_vars

\* -------------------------------------------------------- summary statistics
\* Longest brightness array handed to the statistics.
MaxData == 4

\* usize::MAX, as far as the integers of the model go.
UsizeMax == 2147483647

\* a - b on usize without overflow checks.
WrappingSub(a, b) == IF a >= b THEN a - b ELSE UsizeMax - (b - a) + 1

\* utils.rs:35-58: None for no data, else the first entry as pivot, the
\* smaller entries of the tail and the others, each in their order.
Partition(data) ==
    IF Len(data) = 0 THEN << >>
    ELSE << [left  |-> SelectSeq(Tail(data), LAMBDA next : next < data[1]),
             pivot |-> data[1],
             right |-> SelectSeq(Tail(data), LAMBDA next : ~(next < data[1]))] >>

RECURSIVE SelectOffByOne(_, _)
\* A select that forgets the pivot when it descends to the right.
SelectOffByOne(data, k) ==
    IF Partition(data) = << >> THEN << >>
    ELSE LET part      == Partition(data)[1]
             pivot_idx == Len(part.left)
         IN  IF pivot_idx = k THEN << part.pivot >>
             ELSE IF pivot_idx > k THEN SelectOffByOne(part.left, k)
             ELSE SelectOffByOne(part.right, k - pivot_idx)

RECURSIVE Select(_, _)
\* utils.rs:60-75: << >> is None.
Select(data, k) ==
    IF Partition(data) = << >> THEN << >>
    ELSE LET part      == Partition(data)[1]
             pivot_idx == Len(part.left)
         IN  IF pivot_idx = k THEN << part.pivot >>
             ELSE IF pivot_idx > k THEN Select(part.left, k)
             ELSE Select(part.right, k - (pivot_idx + 1))

\* utils.rs:77-90.  For no data (even / 2) - 1 overflows: a panic in a build
\* with overflow checks, usize::MAX in one without.
Median(data, overflow_checks) ==
    LET size == Len(data)
    IN  IF size % 2 = 0
        THEN IF size = 0 /\ overflow_checks THEN [panicked |-> TRUE, value |-> << >>]
             ELSE LET fst_med == Select(data, WrappingSub(size \div 2, 1))
                      snd_med == Select(data, size \div 2)
                  IN  [panicked |-> FALSE,
                       value    |-> IF fst_med # << >> /\ snd_med # << >>
                                    THEN << RDiv(fst_med[1] + snd_med[1], 2) >>
                                    ELSE << >>]
        ELSE [panicked |-> FALSE, value |-> Select(data, size \div 2)]

RECURSIVE Fold(_, _, _, _)
\* The loop of sphere_plot.rs:193-198 over pix from its k-th entry on.
Fold(pix, k, Step(_, _), acc) ==
    IF k > Len(pix) THEN acc ELSE Fold(pix, k + 1, Step, Step(acc, pix[k]))

\* sphere_plot.rs:185-229: min, max, mean, standard deviation (<< >> for the
\* NaN of a negative variance), median absolute deviation and median; a panic
\* when a median is None.
CalculateStatisticsOptimized(visible_pix, npix, overflow_checks) ==
    LET med == Median(visible_pix, overflow_checks)
    IN  IF med.panicked \/ med.value = << >> THEN [panicked |-> TRUE]
        ELSE LET max_p  == Fold(visible_pix, 2, LAMBDA a, p : IF p > a THEN p ELSE a,
                                visible_pix[1])
                 min_p  == Fold(visible_pix, 2, LAMBDA a, p : IF p < a THEN p ELSE a,
                                visible_pix[1])
                 sum_p  == Fold(visible_pix, 1, LAMBDA a, p : a + p, 0)
                 sum_sq == Fold(visible_pix, 1, LAMBDA a, p : a + FxMul(p, p), 0)
                 mean_p == RDiv(sum_p, npix)
                 var    == RDiv(sum_sq, npix) - FxMul(mean_p, mean_p)
                 deviation == [p \in 1..Len(visible_pix) |-> Abs(visible_pix[p] - med.value[1])]
                 mad    == Median(deviation, overflow_checks)
             IN  [panicked |-> FALSE, min |-> min_p, max |-> max_p, mean |-> mean_p,
                  sdev |-> IF var < 0 THEN << >> ELSE << FxSqrt(var) >>,
                  mad |-> mad.value[1], med |-> med.value[1]]

\* The brightness values of the arrays handed to the statistics.
PixelValues == {0 - Scale \div 2, 0, Scale \div 4, Scale}

InitStatistics ==
    /\ tess = << >>
    /\ target_wasm \in BOOLEAN
    /\ InitCache /\ InitEntry /\ InitConc /\ InitKernel /\ InitPipe
    /\ \E n \in 0..MaxData : brightness \in [1..n -> PixelValues]
    /\ stats = [op |-> "none"]

\* select(brightness, k)
SelectKth(k) ==
    /\ stats.op = "none"
    /\ stats' = [op |-> "select", k |-> k, value |-> Select(brightness, k)]
    /\ UNCHANGED << tess, target_wasm, cacheVars, entryVars, concVars, kernelVars,
                    pipeVars, brightness >>

\* median(brightness)
MedianOf(overflow_checks) ==
    /\ stats.op = "none"
    /\ \E med \in {Median(brightness, overflow_checks)} :
          stats' = [op |-> "median", panicked |-> med.panicked, value |-> med.value]
    /\ UNCHANGED << tess, target_wasm, cacheVars, entryVars, concVars, kernelVars,
                    pipeVars, brightness >>

\* The statistics of a Hemisphere whose brightness array is brightness.
CalculateStatistics(overflow_checks) ==
    /\ stats.op = "none"
    /\ \E r \in {CalculateStatisticsOptimized(brightness, Len(brightness),
                                               overflow_checks)} :
          stats' = [op |-> "statistics", result |-> r]
    /\ UNCHANGED << tess, target_wasm, cacheVars, entryVars, concVars, kernelVars,
                    pipeVars, brightness >>

NextStatistics ==
    \/ \E k \in 0..Len(brightness) : SelectKth(k)
    \/ \E overflow_checks \in BOOLEAN : MedianOf(overflow_checks)
    \/ \E overflow_checks \in BOOLEAN : CalculateStatistics(overflow_checks)

SpecStatistics == InitStatistics /\ [][NextStatistics]_vars

\* ---------------------------------------------------------- dataset pipeline
\* Most visibility entries of a dataset.
MaxVis == 2

\* chrono: an RFC 3339 string that parses is a local time with an offset from
\* UTC, both in minutes here; << >> is the parse error.
ParseFromRfc3339(s) ==
    IF s.valid THEN << [local |-> s.local, offset |-> s.offset] >> ELSE << >>

\* A conversion that keeps the local time and calls it UTC.
NaiveAsUtc(dt) == [local |-> dt.local, offset |-> 0]

\* chrono: DateTime::with_timezone(&Utc), the same instant at offset 0.
WithTimezoneUtc(dt) == [local |-> dt.local - dt.offset, offset |-> 0]

\* Every antenna index of baselines is below n: no index is out of bounds.
IndicesWithin(baselines, n) ==
    \A k \in 1..Len(baselines) : baselines[k][1] < n /\ baselines[k][2] < n

\* tart_obs.rs:46-90: a timestamp that does not parse and a gain index out of
\* bounds are panics.
ObservationNew(wasm, cal_data, vis, ant_positions) ==
    LET rfc3339   == ParseFromRfc3339(vis.timestamp)
        baselines == [k \in 1..Len(vis.data) |-> << vis.data[k].i, vis.data[k].j >>]
        vis_vec   == [k \in 1..Len(vis.data) |-> << vis.data[k].re, vis.data[k].im >>]
    IN  IF rfc3339 = << >> THEN [panicked |-> TRUE]
        ELSE IF ~IndicesWithin(baselines,
                               Min(Len(cal_data.gain), Len(cal_data.phase_offset)))
        THEN [panicked |-> TRUE]
        ELSE [panicked |-> FALSE,
              obs |-> [timestamp |-> WithTimezoneUtc(rfc3339[1]),
                       ant_x     |-> [a \in 1..Len(ant_positions) |-> ant_positions[a].x],
                       ant_y     |-> [a \in 1..Len(ant_positions) |-> ant_positions[a].y],
                       ant_z     |-> [a \in 1..Len(ant_positions) |-> ant_positions[a].z],
                       vis_arr   |-> ApplyGainsOptimized(wasm, baselines, vis_vec, cal_data),
                       baselines |-> baselines]]

\* tart_obs.rs:144-152: the first record of the dataset; none is a panic.
GetFull(wasm, data) ==
    IF Len(data.data) = 0 THEN [panicked |-> TRUE]
    ELSE ObservationNew(wasm, data.gains, data.data[1].data, data.ant_pos)

\* What a call that panicked leaves behind.
Panicked(hp, ch) ==
    [heap |-> hp, cache |-> ch, returned |-> "panic", reconstruct |-> "none",
     reached |-> FALSE]

\* lib.rs:170-193 and 201-223: the body the two entry points share.  JSON
\* that does not parse (tart_api.rs:19-37) and an antenna index out of bounds
\* in get_uvw are panics.
JsonPipeline(hp, ch, wasm, data, nside, show_sources, render_ok) ==
    IF ~data.parsed THEN Panicked(hp, ch)
    ELSE With(GetFull(wasm, data), LAMBDA o :
      IF o.panicked \/ ~IndicesWithin(o.obs.baselines, Len(o.obs.ant_x))
      THEN Panicked(hp, ch)
      ELSE With(GetUvw(wasm, o.obs.baselines, o.obs.ant_x, o.obs.ant_y, o.obs.ant_z),
        LAMBDA uvw :
        With([k \in 1..Len(uvw) |-> uvw[k][1]], LAMBDA u :
        With([k \in 1..Len(uvw) |-> uvw[k][2]], LAMBDA v :
        With([k \in 1..Len(uvw) |-> uvw[k][3]], LAMBDA w :
        With(MakeSvgWithFeatures(hp, ch, wasm, o.obs.vis_arr, u, v, w, nside, render_ok),
          LAMBDA m :
            [heap        |-> m.heap,
             cache       |-> m.cache,
             returned    |-> IF m.returned = "panic" THEN "panic" ELSE "value",
             reconstruct |-> m.reconstruct,
             reached     |-> TRUE,
             sources     |-> IF show_sources THEN << data.data[1].sources >> ELSE << >>,
             timestamp   |-> o.obs.timestamp,
             obs         |-> o.obs,
             lens        |-> [vis_arr |-> Len(o.obs.vis_arr),
                              baselines |-> Len(o.obs.baselines),
                              u |-> Len(u), v |-> Len(v), w |-> Len(w)]]))))))

\* tart_api.rs:105-109: antenna positions in metres, close enough together
\* for the baselines to stay within a few wavelengths.
PipelineAntennas ==
    << [x |-> 0, y |-> 0, z |-> 0], [x |-> 2000, y |-> 0 - 1000, z |-> 100],
       [x |-> 0 - 1000, y |-> 1500, z |-> 0] >>

\* tart_api.rs:66: timestamp strings: 10:00 UTC, 12:00 at +02:00, 23:30 at
\* -01:00, and one that is no RFC 3339 time.
Timestamps ==
    { [valid |-> TRUE, local |-> 600, offset |-> 0],
      [valid |-> TRUE, local |-> 720, offset |-> 120],
      [valid |-> TRUE, local |-> 1410, offset |-> 0 - 60],
      [valid |-> FALSE, local |-> 0, offset |-> 0] }

\* tart_api.rs:139-145: a dataset with num_ant antennas, one record (or none)
\* of num_vis visibility entries and the timestamp ts.
Dataset(num_ant, num_records, num_vis, ts) ==
    [parsed  |-> TRUE,
     ant_pos |-> SubSeq(PipelineAntennas, 1, num_ant),
     gains   |-> GainsOf(FALSE),
     data    |-> [r \in 1..num_records |->
                    [data    |-> [timestamp |-> ts,
                                  data |-> [k \in 1..num_vis |->
                                              [i |-> BaselineAt(k)[1], j |-> BaselineAt(k)[2],
                                               re |-> VisAt(k)[1], im |-> VisAt(k)[2]]]],
                     sources |-> << >>]]]

InitPipeline ==
    /\ tess = [n \in NsideRequests |-> ComputeNewScalar(n)]
    /\ target_wasm \in BOOLEAN
    /\ InitCache /\ InitEntry /\ InitConc /\ InitKernel /\ InitStat
    /\ \/ dataset = [parsed |-> FALSE]
       \/ \E num_ant \in 2..3, num_records \in 0..1, num_vis \in 0..MaxVis,
             ts \in Timestamps :
               dataset = Dataset(num_ant, num_records, num_vis, ts)
    /\ run = [op |-> "none"]

\* What a run of the pipeline leaves behind.
RunOf(op, nside, show_sources, show_stats, show_colorbar, r) ==
    [op |-> op, nside |-> nside,
     flags |-> << show_sources, show_stats, show_colorbar >>, result |-> r]

\* lib.rs:163-194
JsonToSvgWithFeatures(nside, show_sources, show_stats, show_colorbar, render_ok) ==
    /\ run.op = "none"
    /\ \E r \in {JsonPipeline(heap, cache, target_wasm, dataset, nside, show_sources,
                              render_ok)} :
          /\ heap' = r.heap
          /\ cache' = r.cache
          /\ run' = RunOf("json_to_svg_with_features", nside, show_sources, show_stats,
                          show_colorbar, r)
    /\ UNCHANGED << tess, target_wasm, held, requested, last, entryVars, concVars,
                    kernelVars, statVars, dataset >>

\* lib.rs:197-224: the same with the flags of the configuration; the result
\* is always Ok.
ProcessJson(nside, show_sources, show_stats, show_colorbar, render_ok) ==
    /\ run.op = "none"
    /\ \E r \in {JsonPipeline(heap, cache, target_wasm, dataset, nside, show_sources,
                              render_ok)} :
          /\ heap' = r.heap
          /\ cache' = r.cache
          /\ run' = RunOf("process_json_data", nside, show_sources, show_stats,
                          show_colorbar,
                          IF r.returned = "panic" THEN r ELSE [r EXCEPT !.returned = "Ok"])
    /\ UNCHANGED << tess, target_wasm, held, requested, last, entryVars, concVars,
                    kernelVars, statVars, dataset >>

NextPipeline ==
    \/ \E nside \in NsideRequests, show_sources \in BOOLEAN, show_stats \in BOOLEAN,
          show_colorbar \in BOOLEAN, render_ok \in BOOLEAN :
            JsonToSvgWithFeatures(nside, show_sources, show_stats, show_colorbar, render_ok)
    \/ \E nside \in NsideRequests, show_sources \in BOOLEAN, show_stats \in BOOLEAN,
          show_colorbar \in BOOLEAN, render_ok \in BOOLEAN :
            ProcessJson(nside, show_sources, show_stats, show_colorbar, render_ok)

SpecPipeline == InitPipeline /\ [][NextPipeline]_vars

\* ------------------------------------------------------ properties: reconstruct
AllZero(a) == \A p \in 1..Len(a) : a[p] = 0

\* The Hemisphere caller c holds, in heap hp.
HeldBy(hp, c) == Deref(hp, held[c][1])

\* C1: a reconstruct whose four arrays are not all of one length returns the
\* dimension-mismatch error and leaves every Hemisphere, the brightness of the
\* one it was called on included, exactly as it was.
C1_MismatchLeavesBrightness ==
    [][(last'.op = "reconstruct" /\ ~last'.lens_equal)
         => (last'.result = ErrLength /\ heap' = heap)]_vars

\* A mismatched call was refused on a Hemisphere that held an image.
C1_Witness ==
    /\ last.op = "reconstruct" /\ ~last.lens_equal /\ last.result = ErrLength
    /\ ~AllZero(HeldBy(heap, last.caller).visible_pix)

\* C2: reconstruct is all-or-nothing: after a call, either it succeeded and the
\* brightness array is, entry for entry, the newly computed values, or it
\* failed and the brightness array is, entry for entry, what it was.
C2_AllOrNothing ==
    [][last'.op = "reconstruct"
         => LET before == HeldBy(heap, last'.caller).visible_pix
                after  == HeldBy(heap', last'.caller).visible_pix
            IN  \/ last'.result = "Ok" /\ after = last'.fresh
                \/ last'.result # "Ok" /\ after = before]_vars

\* A call succeeded and wrote an image that is not all zero.
C2_Witness ==
    /\ last.op = "reconstruct" /\ last.result = "Ok"
    /\ HeldBy(heap, last.caller).visible_pix = last.fresh
    /\ ~AllZero(last.fresh)

\* C3: a reconstruct with arrays of equal length on a Hemisphere without
\* visible pixels returns the empty-sky error, computes no harmonics and
\* writes nothing.
C3_EmptySkyRejected ==
    [][(/\ last'.op = "reconstruct"
        /\ last'.lens_equal
        /\ Len(HeldBy(heap, last'.caller).visible_pix) = 0)
         => (last'.result = ErrEmptySky /\ last'.harmonics = 0 /\ heap' = heap)]_vars

\* A call with one baseline was refused on a Hemisphere without pixels.
C3_Witness ==
    /\ last.op = "reconstruct" /\ last.lens_equal /\ last.baselines > 0
    /\ last.result = ErrEmptySky /\ last.harmonics = 0
    /\ HeldBy(heap, last.caller).npix = 0

\* ----------------------------------------------------------- properties: cache
\* The geometry of a Hemisphere: everything but its brightness.
Geometry(h) == << h.nside, h.npix, h.visible_indices, h.l, h.m, h.n >>

\* C4: copies handed out for one nside have the same geometry and brightness
\* arrays of their own: a reconstruct on one changes neither the copy of
\* another caller nor the cached entry, which stays all zero, as is every
\* Hemisphere the cache returns.
C4_IndependentCopies ==
    [][/\ \A c \in Callers, d \in Callers :
             (/\ held'[c] # << >> /\ held'[d] # << >>
              /\ Deref(heap', held'[c][1]).nside = Deref(heap', held'[d][1]).nside)
               => Geometry(Deref(heap', held'[c][1])) = Geometry(Deref(heap', held'[d][1]))
       /\ cache' # << >> => AllZero(Deref(heap', cache'[1].hemi).visible_pix)
       /\ last'.op = "get" => AllZero(Deref(heap', last'.ref).visible_pix)
       /\ last'.op = "reconstruct" =>
             /\ \A d \in Callers \ {last'.caller} :
                    held[d] # << >> => HeldBy(heap', d) = HeldBy(heap, d)
             /\ cache # << >> => Deref(heap', cache[1].hemi) = Deref(heap, cache[1].hemi)]_vars

\* A hit returned an all-zero copy while another caller holds a copy for the
\* same nside that carries an image.
C4_Witness ==
    /\ last.op = "get" /\ ~last.built
    /\ \E d \in Callers \ {last.caller} :
          /\ held[d] # << >>
          /\ HeldBy(heap, d).nside = last.nside
          /\ ~AllZero(HeldBy(heap, d).visible_pix)
    /\ AllZero(Deref(heap, last.ref).visible_pix)

\* C5: the cache holds at most one entry; get_cache_info is None when nothing
\* was requested since the last clear and otherwise Some(n) for the latest
\* request; a request for another nside than the cached one is a miss that
\* builds and replaces the entry.
C5_LatestRequestCached ==
    /\ Len(cache) <= 1
    /\ GetCacheInfo(cache) = requested
    /\ (last.op = "get" /\ last.before # << last.nside >>)
          => (last.built /\ GetCacheInfo(cache) = << last.nside >>)

\* The sequence n, n', n: a caller still holds the Hemisphere of an earlier
\* request for n, the cache then held n', and the latest request for n was a
\* miss that cached n again.
C5_Witness ==
    /\ last.op = "get" /\ last.built /\ last.nside > 0
    /\ last.before # << >> /\ last.before # << last.nside >> /\ last.before[1] > 0
    /\ \E d \in Callers \ {last.caller} :
          held[d] # << >> /\ HeldBy(heap, d).nside = last.nside
    /\ GetCacheInfo(cache) = << last.nside >>

\* C6: every get_or_create_hemisphere(n) of the cached implementation returns
\* the Hemisphere the implementation without a cache returns at that point:
\* a fresh Hemisphere::new(n), geometry and zeroed brightness.
C6_EquivalentToUncached ==
    last.op = "get"
      => LET cached   == Deref(heap, last.ref)
             uncached == GetOrCreateUncached(heap, cache, last.nside, last.caller)
         IN  /\ cached = Deref(uncached.heap, uncached.ref)
             /\ cached = HemisphereNew(last.nside)

\* A hit for the largest nside, after a caller changed the copy it was given
\* for that nside.
C6_Witness ==
    /\ last.op = "get" /\ ~last.built /\ last.nside = MaxNside
    /\ \E d \in Callers :
          /\ d # last.caller /\ held[d] # << >>
          /\ HeldBy(heap, d).nside = MaxNside
          /\ HeldBy(heap, d).visible_pix # HemisphereNew(MaxNside).visible_pix

\* C7: under every interleaving of the steps of get_or_create_hemisphere
\* calls by concurrent threads, a slot that is not empty holds under its key
\* the complete, untouched tessellation for that key, and the Hemisphere a
\* call is about to return or has returned has the nside its caller asked for.
C7_SlotNeverCorrupted ==
    /\ \A t \in Threads :
          tcache[t] # << >> =>
            /\ tcache[t][1].nside = tcache[t][1].hemi.nside
            /\ tcache[t][1].hemi = HemisphereNew(tcache[t][1].nside)
    /\ \A t \in Threads :
          /\ (pc[t] = "return" => local[t][1].nside = req[t])
          /\ (ret[t] # << >> => ret[t][1] = HemisphereNew(req[t]))

\* One thread stands between a hit for its nside and the clone while another
\* thread has just built and stored another nside.
C7_Witness ==
    \E t \in Threads, u \in Threads :
        /\ t # u /\ req[t] # req[u] /\ req[t] > 0 /\ req[u] > 0
        /\ pc[t] = "clone" /\ tcache[SlotOf(t)][1].nside = req[t]
        /\ pc[u] = "return" /\ tcache[SlotOf(u)] # << >>
        /\ tcache[SlotOf(u)][1].nside = req[u]
        /\ local[u] # << >> /\ local[u][1].npix > 0

\* ---------------------------------------------------- properties: entry points
\* C8: when reconstruct fails inside an imaging entry point, the caller gets
\* an error result and no image.
C8_FailureSurfaced ==
    (outcome.op \in {"make_svg", "process_json"} /\ outcome.reconstruct \notin {"none", "Ok"})
      => (outcome.returned = "Err" /\ outcome.image = << >>)

RECURSIVE IsPowerOfTwo(_)
IsPowerOfTwo(n) == n = 1 \/ (n > 1 /\ n % 2 = 0 /\ IsPowerOfTwo(n \div 2))

\* C10: the command line reports every nside that is zero or not a power of
\* two as InvalidNside, and builds no Hemisphere for it.
C10_InvalidNsideReported ==
    (outcome.op = "cli" /\ ~IsPowerOfTwo(outcome.nside))
      => (outcome.error = "InvalidNside" /\ ~outcome.built)

\* ------------------------------------------------------ properties: Hemisphere
\* Every array of h has npix entries.
ParallelArrays(h) ==
    /\ Len(h.visible_pix) = h.npix
    /\ Len(h.visible_indices) = h.npix
    /\ Len(h.elaz) = h.npix
    /\ Len(h.l) = h.npix
    /\ Len(h.m) = h.npix
    /\ Len(h.n) = h.npix

\* The Hemispheres that exist in the state.
Hemispheres == {heap[o][1] : o \in {q \in Cells : heap[q] # << >>}}

\* C11: in every state of a Hemisphere (built, returned by the cache, after a
\* reconstruct that succeeded or failed, after a binary round trip) the arrays
\* visible_pix, visible_indices, elaz, l, m and n all have npix entries, and
\* after a successful reconstruct the brightness array has as many entries as
\* the tessellation of that nside has visible pixels.
C11_ParallelArrays ==
    /\ \A h \in Hemispheres : ParallelArrays(h)
    /\ (last.op = "reconstruct" /\ last.result = "Ok")
          => Len(HeldBy(heap, last.caller).visible_pix)
               = HemisphereNew(HeldBy(heap, last.caller).nside).npix

\* A binary round trip of a Hemisphere of the batched build that carried an
\* image.
C11_Witness ==
    /\ target_wasm /\ last.op = "binary" /\ last.ok /\ last.had_image
    /\ HeldBy(heap, last.caller).npix > 4

\* l^2 + m^2 + n^2 of pixel p of h is within 1e-3 of 1.
UnitNorm(h, p) ==
    Abs(h.l[p] * h.l[p] + h.m[p] * h.m[p] + h.n[p] * h.n[p] - Scale * Scale)
      < (Scale * Scale) \div 1000

\* C12: a Hemisphere for an nside that is a positive power of two has at least
\* one pixel, so reconstruct never answers it with the empty-sky error, and
\* every pixel's direction cosines have l^2 + m^2 + n^2 within 1e-3 of 1.
C12_ValidNsideNonEmptyUnit ==
    /\ \A h \in Hemispheres :
          IsPowerOfTwo(h.nside) => (h.npix > 0 /\ \A p \in 1..Len(h.l) : UnitNorm(h, p))
    /\ (/\ last.op = "reconstruct"
        /\ IsPowerOfTwo(HeldBy(heap, last.caller).nside))
          => last.result # ErrEmptySky

\* A reconstruct with arrays of equal length on a Hemisphere for nside = 2.
C12_Witness ==
    /\ last.op = "reconstruct" /\ last.lens_equal /\ last.result = "Ok"
    /\ HeldBy(heap, last.caller).nside = 2
    /\ HeldBy(heap, last.caller).npix > 0

\* C13: every kept pixel has an elevation above 0 and at most pi/2, and a
\* pixel of the full sphere is kept exactly when its centre is strictly above
\* the horizon (the z of its ring is positive).
C13_AboveHorizonOnly ==
    \A h \in Hemispheres :
        /\ \A k \in 1..Len(h.elaz) : h.elaz[k].el > 0 /\ h.elaz[k].el <= PI_OVER_2
        /\ \A pix \in 0..(NHash(h.nside) - 1) :
              (\E k \in 1..Len(h.visible_indices) : h.visible_indices[k] = pix)
                <=> RingZ(h.nside, RingOf(h.nside, pix).i) > 0

\* A Hemisphere for nside = 2: it keeps pixels and drops the ring on the
\* horizon.
C13_Witness ==
    \E h \in Hemispheres :
        /\ h.nside = 2 /\ h.npix > 0
        /\ \E pix \in 0..(NHash(2) - 1) :
              /\ RingZ(2, RingOf(2, pix).i) = 0
              /\ \A k \in 1..Len(h.visible_indices) : h.visible_indices[k] # pix

\* The geometry of a Hemisphere with its angles.
GeometryWithElAz(h) == << Geometry(h), h.elaz >>

\* C14: two Hemispheres for one nside, whenever and however they were built,
\* have the same visible_indices, l, m, n and elaz; visible_indices is
\* strictly increasing and every entry is a pixel index of the full sphere.
C14_StableOrdering ==
    /\ \A g \in Hemispheres, h \in Hemispheres :
          g.nside = h.nside => GeometryWithElAz(g) = GeometryWithElAz(h)
    /\ \A h \in Hemispheres :
          /\ \A k \in 1..(Len(h.visible_indices) - 1) :
                h.visible_indices[k] < h.visible_indices[k + 1]
          /\ \A k \in 1..Len(h.visible_indices) :
                h.visible_indices[k] >= 0 /\ h.visible_indices[k] < 12 * h.nside * h.nside

\* A caller has just built nside = 2 itself while the cache holds an earlier
\* build for nside = 2.
C14_Witness ==
    /\ last.op = "new" /\ last.nside = 2
    /\ cache # << >> /\ cache[1].nside = 2
    /\ Deref(heap, "cache").npix > 0

\* C15: the binary round trip of a Hemisphere succeeds, gives back its nside,
\* npix, visible_indices, l, m, n and elaz unchanged, and a brightness array
\* of npix zeros, whatever the brightness was.
C15_BinaryRoundTrip ==
    [][last'.op = "binary"
         => LET before == HeldBy(heap, last'.caller)
                after  == HeldBy(heap', last'.caller)
            IN  /\ last'.ok
                /\ GeometryWithElAz(after) = GeometryWithElAz(before)
                /\ after.visible_pix = [p \in 1..before.npix |-> 0]]_vars

\* A round trip of a Hemisphere that carried an image.
C15_Witness ==
    /\ last.op = "binary" /\ last.ok /\ last.had_image
    /\ HeldBy(heap, last.caller).nside = 2
    /\ AllZero(HeldBy(heap, last.caller).visible_pix)

\* C16: reconstruct with the one baseline (0, 0, 0), the visibility 1 + 0i
\* and use_real_only succeeds on a Hemisphere with pixels and gives every
\* pixel the same brightness, 1 / sqrt(pixel count) to the resolution of the
\* arithmetic.
C16_ZeroBaselineUniform ==
    (/\ last.op = "reconstruct" /\ last.lens_equal /\ last.real_only
     /\ last.vis = << Scale, 0 >> /\ last.uvw = << 0, 0, 0 >>
     /\ HeldBy(heap, last.caller).npix > 0)
      => LET px == HeldBy(heap, last.caller).visible_pix
             n  == Len(px)
         IN  /\ last.result = "Ok"
             /\ \A p \in 1..n :
                   /\ px[p] = px[1]
                   /\ (px[p] - 1) * (px[p] - 1) * n <= Scale * Scale
                   /\ Scale * Scale <= (px[p] + 1) * (px[p] + 1) * n

\* The zero baseline was imaged on a Hemisphere with more than four pixels.
C16_Witness ==
    /\ last.op = "reconstruct" /\ last.result = "Ok" /\ last.real_only
    /\ last.vis = << Scale, 0 >> /\ last.uvw = << 0, 0, 0 >>
    /\ HeldBy(heap, last.caller).npix > 4
    /\ HeldBy(heap, last.caller).visible_pix[1] > 0

\* --------------------------------------------------- properties: array kernels
\* C17: antenna calibration with every gain 1.0 and every phase offset 0.0
\* returns each visibility as it was given, for every baseline list.
C17_UnitGainsIdentity ==
    (kernel.op = "apply_gains" /\ kernel.unit) => kernel.out = obs.vis_arr

\* The batched kernel calibrated a list that fills one batch of four and
\* leaves a remainder.
C17_Witness ==
    /\ target_wasm /\ kernel.op = "apply_gains" /\ kernel.unit
    /\ Len(kernel.out) > 4 /\ kernel.out = obs.vis_arr

\* The two antennas of baseline k of obs stand at one place.
SamePosition(ant, k) ==
    LET i == obs.baselines[k][1] + 1
        j == obs.baselines[k][2] + 1
    IN  ant.x[i] = ant.x[j] /\ ant.y[i] = ant.y[j] /\ ant.z[i] = ant.z[j]

\* C18: a baseline whose two antennas have the same position gets
\* (u, v, w) = (0, 0, 0).
C18_SamePositionZero ==
    kernel.op = "get_uvw"
      => \A k \in 1..Len(kernel.out) :
            SamePosition(kernel.ant, k) => kernel.out[k] = << 0, 0, 0 >>

\* A list with a baseline between two different antennas at one place, and
\* with a baseline that is not zero.
C18_Witness ==
    /\ kernel.op = "get_uvw"
    /\ \E k \in 1..Len(kernel.out) :
          /\ obs.baselines[k][1] # obs.baselines[k][2]
          /\ SamePosition(kernel.ant, k) /\ kernel.out[k] = << 0, 0, 0 >>
    /\ \E k \in 1..Len(kernel.out) : kernel.out[k] # << 0, 0, 0 >>

\* C19: the accumulated pixels are the same for every order in which the
\* baselines are taken and for every split into worker chunks merged by
\* complex addition in any order, and every baseline is taken exactly once.
C19_OrderIndependent ==
    kernel.op \in {"accumulate", "accumulate_in_order"}
      => /\ kernel.out = kernel.scalar
         /\ Len(kernel.taken) = Len(obs.acc.vis)
         /\ \A b \in 1..Len(obs.acc.vis) :
               Cardinality({k \in 1..Len(kernel.taken) : kernel.taken[k] = b}) = 1

\* The parallel path split the baselines into several chunks and merged them
\* in another order than that of the chunks.
C19_Witness ==
    /\ kernel.op = "accumulate" /\ kernel.parallel /\ kernel.chunks > 1
    /\ kernel.merge # [i \in 1..kernel.chunks |-> i]
    /\ kernel.out = kernel.scalar
    /\ \E p \in 1..Len(kernel.out) : kernel.out[p] # << 0, 0 >>

\* C20: the kernels that work on four elements at a time (pixel
\* accumulation, antenna calibration, baseline geometry) give, for every
\* input length, the output of the scalar loop, element for element.
C20_BatchedEqualsScalar ==
    kernel.op \in {"accumulate", "apply_gains", "get_uvw"} => kernel.out = kernel.scalar

\* ------------------------------------------- properties: reconstruct, results
\* The Hemisphere the caller of the latest operation holds.
LastSky == Deref(heap, held[last.caller][1])

\* The complex accumulator of the latest reconstruct of one baseline, computed
\* from its arguments and the geometry of h.
AccumulatorOf(h) ==
    Accumulate(<< last.vis >>,
               ComputeFourierHarmonics(h, << last.uvw[1] >>, << last.uvw[2] >>,
                                       << last.uvw[3] >>),
               1, [p \in 1..Len(h.l) |-> << 0, 0 >>])

\* C21: after a successful reconstruct each brightness value is the normalised
\* accumulator's real part (use_real_only) or its magnitude (otherwise), and a
\* magnitude is never negative.
C21_RealPartOrMagnitude ==
    (last.op = "reconstruct" /\ last.result = "Ok")
      => \E acc \in {AccumulatorOf(LastSky)} :
           \E norm \in {FxDiv(Scale, FxSqrt(Len(acc) * Scale))} :
             \A p \in 1..Len(acc) :
                IF last.real_only
                THEN LastSky.visible_pix[p] = FxMul(acc[p][1], norm)
                ELSE /\ LastSky.visible_pix[p]
                          = FxMul(FxSqrt(FxMul(acc[p][1], acc[p][1])
                                           + FxMul(acc[p][2], acc[p][2])), norm)
                     /\ LastSky.visible_pix[p] >= 0

\* A reconstruct by magnitude of an accumulator with a negative real part.
C21_Witness ==
    /\ last.op = "reconstruct" /\ last.result = "Ok" /\ ~last.real_only
    /\ \E p \in 1..Len(LastSky.visible_pix) :
          LastSky.visible_pix[p] > 0 /\ AccumulatorOf(LastSky)[p][1] < 0

\* ------------------------------------------------------ properties: harmonics
\* C22: the harmonics are one array per baseline, in baseline order, each as
\* long as the visible pixels, and the array of baseline k is the same
\* whatever the order of the workers and the coordinates of the other
\* baselines.
C22_HarmonicsPerBaseline ==
    kernel.op = "harmonics"
      => /\ Len(kernel.out) = Len(obs.acc.u)
         /\ \A b \in 1..Len(kernel.out) :
               /\ Len(kernel.out[b]) = kernel.pixels
               /\ kernel.out[b] = kernel.inorder[b]
               /\ b = kernel.k => kernel.out[b] = kernel.changed[b]

\* Several baselines and pixels, workers that finish out of order, and a
\* change of the other baselines that changes their arrays.
C22_Witness ==
    /\ kernel.op = "harmonics" /\ kernel.k > 0 /\ kernel.pixels > 1
    /\ Len(kernel.out) > 2
    /\ kernel.finished # [i \in 1..Len(kernel.out) |-> i]
    /\ kernel.out[kernel.k] = kernel.changed[kernel.k]
    /\ \E b \in 1..Len(kernel.out) : kernel.out[b] # kernel.changed[b]

\* ------------------------------------------------------- properties: geometry
\* C23: a reconstruct, successful or failed, leaves nside, npix,
\* visible_indices, elaz, l, m and n of every Hemisphere as they were; only a
\* brightness array may change.
C23_GeometryImmutable ==
    [][last'.op = "reconstruct"
         => \A o \in Cells :
               heap[o] # << >>
                 => /\ heap'[o] # << >>
                    /\ GeometryWithElAz(heap'[o][1]) = GeometryWithElAz(heap[o][1])]_vars

\* A reconstruct wrote an image into a Hemisphere whose geometry is still the
\* one it was built with.
C23_Witness ==
    /\ last.op = "reconstruct" /\ last.result = "Ok"
    /\ ~AllZero(HeldBy(heap, last.caller).visible_pix)
    /\ HeldBy(heap, last.caller).npix > 0
    /\ GeometryWithElAz(HeldBy(heap, last.caller))
         = GeometryWithElAz(tess[HeldBy(heap, last.caller).nside])

\* ---------------------------------------------------- properties: elementwise
\* The calibration gave one output per baseline and output k did not change
\* with the other visibilities and the other antennas' gains.
ElementwiseInValues ==
    kernel.op = "apply_gains_elementwise"
      => /\ Len(kernel.out) = Len(obs.baselines)
         /\ Len(kernel.changed) = Len(obs.baselines)
         /\ kernel.k > 0 => kernel.out[kernel.k] = kernel.changed[kernel.k]

\* C24: the calibration gives one output per baseline, in baseline order
\* (none for an empty input), and output k depends on nothing but visibility
\* k and the gain and phase offset of the two antennas of baseline k: it is
\* the same whatever the other visibilities and baselines are, and whether
\* they are there or not.
C24_Elementwise ==
    /\ ElementwiseInValues
    /\ (kernel.op = "apply_gains_elementwise" /\ kernel.k > 0)
         => kernel.out[kernel.k] = kernel.alone[1]

\* (u, v, w) of the antenna pair `pair` at positions ant, from the definition:
\* the difference of the positions in wavelengths.
UvwOfPair(ant, pair) ==
    << FxDiv(ant.x[pair[1] + 1] - ant.x[pair[2] + 1], L1_WAVELENGTH),
       FxDiv(ant.y[pair[1] + 1] - ant.y[pair[2] + 1], L1_WAVELENGTH),
       FxDiv(ant.z[pair[1] + 1] - ant.z[pair[2] + 1], L1_WAVELENGTH) >>

\* a and b differ by at most tol units of the fixed point.
Near(a, b, tol) == Abs(a - b) <= tol

\* C25: get_uvw returns u, v and w with one entry per baseline each, entry k
\* being that of baseline k up to the rounding of one division (three empty
\* arrays for no baseline), and leaves the baseline list and the antenna
\* positions as they were.
C25_OnePerBaselineInOrder ==
    [][kernel'.op = "get_uvw"
         => /\ Len(kernel'.u) = Len(obs.baselines)
            /\ Len(kernel'.v) = Len(obs.baselines)
            /\ Len(kernel'.w) = Len(obs.baselines)
            /\ \A k \in 1..Len(obs.baselines) :
                  \E e \in {UvwOfPair(kernel'.ant, obs.baselines[k])} :
                     /\ Near(kernel'.u[k], e[1], 2)
                     /\ Near(kernel'.v[k], e[2], 2)
                     /\ Near(kernel'.w[k], e[3], 2)
            /\ obs' = obs]_vars

\* A list of a full batch and a remainder whose coordinates are not all equal.
C25_Witness ==
    /\ kernel.op = "get_uvw" /\ target_wasm /\ Len(kernel.u) > 4
    /\ kernel.u[1] # kernel.u[2] /\ kernel.u[2] # kernel.u[3]
    /\ kernel.w[4] = 0

\* ----------------------------------------------------- properties: statistics
\* v is the k-th smallest (0-based) of data: an entry with at most k entries
\* below it and more than k entries not above it.
IsKthSmallest(data, k, v) ==
    /\ \E i \in 1..Len(data) : data[i] = v
    /\ Cardinality({i \in 1..Len(data) : data[i] < v}) <= k
    /\ Cardinality({i \in 1..Len(data) : data[i] <= v}) > k

\* v lies between the smallest and the largest entry of data.
WithinRange(data, v) ==
    /\ \E i \in 1..Len(data) : data[i] <= v
    /\ \E i \in 1..Len(data) : data[i] >= v

\* C26: for a brightness array that is not empty, duplicates included, select
\* with 0 <= k < len ends and returns the k-th smallest entry; median returns
\* the middle one for an odd length and the mean of the two middle ones for
\* an even length, and lies between the minimum and the maximum.
C26_MedianCorrect ==
    Len(brightness) > 0
      => /\ (stats.op = "select" /\ stats.k < Len(brightness))
              => /\ stats.value # << >>
                 /\ IsKthSmallest(brightness, stats.k, stats.value[1])
         /\ stats.op = "median"
              => /\ ~stats.panicked /\ stats.value # << >>
                 /\ WithinRange(brightness, stats.value[1])
                 /\ IF Len(brightness) % 2 = 1
                    THEN IsKthSmallest(brightness, Len(brightness) \div 2, stats.value[1])
                    ELSE \E a \in PixelValues, b \in PixelValues :
                            /\ IsKthSmallest(brightness, Len(brightness) \div 2 - 1, a)
                            /\ IsKthSmallest(brightness, Len(brightness) \div 2, b)
                            /\ stats.value[1] = RDiv(a + b, 2)
         /\ stats.op = "statistics"
              => /\ ~stats.result.panicked
                 /\ stats.result.min <= stats.result.med
                 /\ stats.result.med <= stats.result.max
                 /\ WithinRange(brightness, stats.result.min)
                 /\ \A i \in 1..Len(brightness) :
                       stats.result.min <= brightness[i] /\ brightness[i] <= stats.result.max

\* The median of an array of even length with a value that occurs twice,
\* whose two middle entries differ.
C26_Witness ==
    /\ stats.op = "median" /\ Len(brightness) = 4
    /\ \E i \in 1..3 : brightness[i] = brightness[i + 1]
    /\ \A i \in 1..4 : brightness[i] # stats.value[1]
    /\ WithinRange(brightness, stats.value[1])

\* ------------------------------------------- properties: reconstruct, order
\* C28: reconstruct compares the lengths first, tests for an empty sky second,
\* and computes harmonics and writes brightness only after both: arrays of
\* different lengths on a Hemisphere without pixels give the
\* dimension-mismatch error.
C28_LengthCheckFirst ==
    [][last'.op = "reconstruct"
         => /\ ~last'.lens_equal => last'.result = ErrLength
            /\ (last'.lens_equal /\ Len(HeldBy(heap, last'.caller).visible_pix) = 0)
                  => last'.result = ErrEmptySky
            /\ last'.result # "Ok" => (last'.harmonics = 0 /\ heap' = heap)]_vars

\* Arrays of different lengths were refused on a Hemisphere without pixels.
C28_Witness ==
    /\ last.op = "reconstruct" /\ ~last.lens_equal
    /\ Len(HeldBy(heap, last.caller).visible_pix) = 0
    /\ last.result = ErrLength /\ last.harmonics = 0

\* The brightness of h replaced by zeros.
Cleared(h) == [h EXCEPT !.visible_pix = [p \in 1..Len(h.visible_pix) |-> 0]]

\* The latest reconstruct of one baseline, of the next state, run on h.
SameCallOn(h) ==
    ReconstructSkyImage(<< last'.vis >>, << last'.uvw[1] >>, << last'.uvw[2] >>,
                        << last'.uvw[3] >>, h, last'.real_only)

\* C29: a successful reconstruct overwrites: the brightness array it leaves is
\* the one the same call leaves on a Hemisphere of zeros, whatever it held
\* before, and the same call once more leaves it as it is.
C29_Overwrites ==
    [][(last'.op = "reconstruct" /\ last'.result = "Ok")
         => /\ HeldBy(heap', last'.caller).visible_pix
                 = SameCallOn(Cleared(HeldBy(heap, last'.caller))).sky.visible_pix
            /\ SameCallOn(HeldBy(heap', last'.caller)).sky
                 = HeldBy(heap', last'.caller)]_vars

\* A reconstruct succeeded on a Hemisphere that held another image.
C29_Witness ==
    /\ last.op = "reconstruct" /\ last.result = "Ok" /\ last.had_other
    /\ HeldBy(heap, last.caller).visible_pix = last.fresh
    /\ \E p \in 1..Len(last.fresh) : last.fresh[p] # 0

\* The instant a timestamp string that parses denotes, in minutes of UTC.
InstantOf(s) == s.local - s.offset

\* The timestamp string of the dataset's first record.
TimestampString == dataset.data[1].data.timestamp

\* C27: the timestamp of the Observation, and with it the one that
\* json_to_svg_with_features or process_json_data returns, is in UTC and
\* denotes the instant of the dataset's timestamp string, for every nside,
\* all display flags and whatever reconstruct returned; the Observation the
\* call holds at its end is the one that was constructed.
C27_TimestampPropagated ==
    (run.op # "none" /\ run.result.reached)
      => /\ TimestampString.valid
         /\ run.result.timestamp.offset = 0
         /\ run.result.timestamp.local = InstantOf(TimestampString)
         /\ run.result.obs = GetFull(target_wasm, dataset).obs
         /\ run.result.obs.timestamp = run.result.timestamp

\* process_json_data returned the timestamp of a string written at +02:00,
\* at nside 2 with all display flags set.
C27_Witness ==
    /\ run.op = "process_json_data" /\ run.result.returned = "Ok"
    /\ run.nside = 2 /\ run.flags = << TRUE, TRUE, TRUE >>
    /\ TimestampString.offset = 120 /\ TimestampString.local = 720
    /\ run.result.timestamp = [local |-> 600, offset |-> 0]

\* C30: whenever the pipeline reaches reconstruct, the calibrated
\* visibilities, the baselines and u, v, w all have as many elements as the
\* dataset has visibility entries, and reconstruct does not refuse the
\* lengths.
C30_PipelineLengths ==
    (run.op # "none" /\ run.result.reached)
      => /\ \A len \in { run.result.lens.vis_arr, run.result.lens.baselines,
                         run.result.lens.u, run.result.lens.v, run.result.lens.w } :
                len = Len(dataset.data[1].data.data)
         /\ run.result.reconstruct # ErrLength

\* json_to_svg_with_features returned an image of a dataset of MaxVis
\* visibility entries and three antennas.
C30_Witness ==
    /\ run.op = "json_to_svg_with_features" /\ run.result.returned = "value"
    /\ Len(dataset.data[1].data.data) = MaxVis /\ Len(dataset.ant_pos) = 3
    /\ run.result.lens.u = MaxVis /\ run.result.reconstruct = "Ok"
====
